---- MODULE Spec2Model ----
(***************************************************************************)
(* A model of pm-bot: the request router (app/agents/main.py), the         *)
(* decision engine (app/agents/intelligence.py), the aggregation engine    *)
(* (app/mcp/unified_service.py) and the management handler with its        *)
(* identifier extraction and duplicate detector                            *)
(* (app/agents/management.py).                                             *)
(*                                                                         *)
(* Text is modelled as sequences of one-character strings, so that the     *)
(* keyword tests (`kw in query.lower()`) and the regular expressions of    *)
(* the source are computed, not assumed.                                   *)
(***************************************************************************)
EXTENDS Integers, Sequences, FiniteSets, TLC

(***************************************************************************)
(* Characters and Python's str methods                                     *)
(***************************************************************************)
UpperChars == <<"A","B","C","D","E","F","G","H","I","J","K","L","M",
                "N","O","P","Q","R","S","T","U","V","W","X","Y","Z">>
LowerChars == <<"a","b","c","d","e","f","g","h","i","j","k","l","m",
                "n","o","p","q","r","s","t","u","v","w","x","y","z">>
DigitChars == {"0","1","2","3","4","5","6","7","8","9"}

UpperSet == {UpperChars[i] : i \in 1..26}
LowerSet == {LowerChars[i] : i \in 1..26}
LetterSet == UpperSet \cup LowerSet
\* \w of Python's re for ASCII text
WordSet == LetterSet \cup DigitChars \cup {"_"}
\* \s of Python's re
SpaceSet == {" ", "\t", "\n"}

\* str.lower() on one character
LowerChar(c) ==
  IF c \in UpperSet THEN LowerChars[CHOOSE i \in 1..26 : UpperChars[i] = c] ELSE c

\* str.upper() on one character
UpperChar(c) ==
  IF c \in LowerSet THEN UpperChars[CHOOSE i \in 1..26 : LowerChars[i] = c] ELSE c

\* str.lower()
Lower(s) == [i \in 1..Len(s) |-> LowerChar(s[i])]

\* str.title(): a letter that follows a non-letter is upper-cased, every other
\* letter is lower-cased
Title(s) ==
  [i \in 1..Len(s) |->
     IF i = 1 \/ s[i-1] \notin LetterSet THEN UpperChar(s[i]) ELSE LowerChar(s[i])]

\* s[a..b] (1-based, inclusive), empty when b < a
Slice(s, a, b) == IF b < a THEN <<>> ELSE SubSeq(s, a, b)

\* str.strip()
Strip(s) ==
  LET nonsp == {i \in 1..Len(s) : s[i] \notin SpaceSet}
  IN IF nonsp = {} THEN <<>>
     ELSE LET lo == CHOOSE i \in nonsp : \A j \in nonsp : i <= j
              hi == CHOOSE i \in nonsp : \A j \in nonsp : i >= j
          IN SubSeq(s, lo, hi)

\* Python's `kw in s` for strings
Contains(s, kw) ==
  \E i \in 1..(Len(s) - Len(kw) + 1) : SubSeq(s, i, i + Len(kw) - 1) = kw

\* the number of keywords of the list kws that occur in s
RECURSIVE CountIn(_, _)
CountIn(kws, s) ==
  IF kws = <<>> THEN 0
  ELSE (IF Contains(s, Head(kws)) THEN 1 ELSE 0) + CountIn(Tail(kws), s)

\* any(kw in s for kw in kws)
AnyIn(kws, s) == \E k \in 1..Len(kws) : Contains(s, kws[k])

\* sep.join(ws)
RECURSIVE JoinWith(_, _)
JoinWith(ws, sep) ==
  IF ws = <<>> THEN <<>>
  ELSE IF Len(ws) = 1 THEN ws[1]
  ELSE ws[1] \o sep \o JoinWith(Tail(ws), sep)

\* words joined by single spaces
RECURSIVE Join(_)
Join(ws) ==
  IF ws = <<>> THEN <<>>
  ELSE IF Len(ws) = 1 THEN ws[1]
  ELSE ws[1] \o <<" ">> \o Join(Tail(ws))

(***************************************************************************)
(* Python's re module, as a backtracking matcher.  A pattern is a tree of  *)
(* nodes; Match gives, in the order in which a backtracking matcher tries  *)
(* them, the states in which the node can end when started in state st.    *)
(* A state is the position reached and the span of capture group 1.        *)
(***************************************************************************)
RSet(S) == [t |-> "set", s |-> S]                 \* [...]
RNot(S) == [t |-> "nset", s |-> S]                \* [^...]
RLit(w) == [t |-> "lit", w |-> w]                 \* literal text
RCat(rs) == [t |-> "cat", rs |-> rs]              \* r1 r2 ...
RAlt(rs) == [t |-> "alt", rs |-> rs]              \* r1|r2|...
RRep(r, lo, hi, greedy) ==                        \* r{lo,hi}, hi = -1: no bound
  [t |-> "rep", r |-> r, lo |-> lo, hi |-> hi, greedy |-> greedy]
RPlus(r) == RRep(r, 1, -1, TRUE)                  \* r+
RStar(r) == RRep(r, 0, -1, TRUE)                  \* r*
ROpt(r) == RRep(r, 0, 1, TRUE)                    \* r?
RLazyPlus(r) == RRep(r, 1, -1, FALSE)             \* r+?
RGrp(r) == [t |-> "grp", r |-> r]                 \* ( r ), the capture group
RWb == [t |-> "wb"]                               \* \b
RBol == [t |-> "bol"]                             \* ^
REol == [t |-> "eol"]                             \* $
RNla(r) == [t |-> "nla", r |-> r]                 \* (?! r )

RDigit == RSet(DigitChars)                        \* \d
RWord == RSet(WordSet)                            \* \w
RSpace == RSet(SpaceSet)                          \* \s
RSp1 == RPlus(RSpace)                             \* \s+
RSp0 == RStar(RSpace)                             \* \s*

\* whether character c is in the class S, with or without re.IGNORECASE
InClass(c, S, ic) ==
  \/ c \in S
  \/ ic /\ (LowerChar(c) \in S \/ UpperChar(c) \in S)

\* whether the text w occurs in s at position p
LitAt(s, p, w, ic) ==
  /\ p + Len(w) - 1 <= Len(s)
  /\ \A k \in 1..Len(w) :
       IF ic THEN LowerChar(s[p + k - 1]) = LowerChar(w[k]) ELSE s[p + k - 1] = w[k]

IsWordAt(s, p) == p >= 1 /\ p <= Len(s) /\ s[p] \in WordSet

\* a sequence without its repeated elements, first occurrences kept
Dedup(q) ==
  LET First(i) == \A j \in 1..(i - 1) : q[j] # q[i]
      kept == SelectSeq([i \in 1..Len(q) |-> i], First)
  IN [k \in 1..Len(kept) |-> q[kept[k]]]

\* a repetition of a character class: the run of characters of the class
\* at st.pos is found by counting, longest end first when greedy
ClassRep(re, s, ic, st) ==
  LET Ok(p) == p <= Len(s) /\ (InClass(s[p], re.r.s, ic) <=> re.r.t = "set")
      room == Len(s) - st.pos + 1
      run == CHOOSE k \in 0..room :
               /\ \A j \in 0..(k - 1) : Ok(st.pos + j)
               /\ k = room \/ ~Ok(st.pos + k)
      most == IF re.hi # -1 /\ re.hi < run THEN re.hi ELSE run
  IN IF most < re.lo THEN <<>>
     ELSE [i \in 1..(most - re.lo + 1) |->
             [st EXCEPT !.pos = IF re.greedy THEN st.pos + most - i + 1
                                ELSE st.pos + re.lo + i - 1]]

RECURSIVE Match(_, _, _, _)
RECURSIVE FlatMatch(_, _, _, _)
RECURSIVE MatchCat(_, _, _, _)
RECURSIVE MatchAlt(_, _, _, _)
RECURSIVE MatchRep(_, _, _, _, _)
RECURSIVE FlatRep(_, _, _, _, _)

\* the node re started in each state of sts, in order
FlatMatch(re, s, ic, sts) ==
  IF sts = <<>> THEN <<>>
  ELSE IF Len(sts) = 1 THEN Match(re, s, ic, sts[1])
  ELSE LET h == Len(sts) \div 2
       IN FlatMatch(re, s, ic, SubSeq(sts, 1, h))
          \o FlatMatch(re, s, ic, SubSeq(sts, h + 1, Len(sts)))

\* the nodes rs one after the other, started in the states sts
MatchCat(rs, s, ic, sts) ==
  IF rs = <<>> \/ sts = <<>> THEN sts
  ELSE MatchCat(Tail(rs), s, ic, Dedup(FlatMatch(Head(rs), s, ic, sts)))

\* the alternatives rs, the leftmost tried first
MatchAlt(rs, s, ic, st) ==
  IF rs = <<>> THEN <<>>
  ELSE Match(Head(rs), s, ic, st) \o MatchAlt(Tail(rs), s, ic, st)

\* the repetition re with count iterations done, started in each state of sts
FlatRep(re, count, s, ic, sts) ==
  IF sts = <<>> THEN <<>>
  ELSE IF Len(sts) = 1 THEN MatchRep(re, count, s, ic, sts[1])
  ELSE LET h == Len(sts) \div 2
       IN FlatRep(re, count, s, ic, SubSeq(sts, 1, h))
          \o FlatRep(re, count, s, ic, SubSeq(sts, h + 1, Len(sts)))

\* the repetition re with count iterations done: greedy tries one more
\* iteration before stopping, lazy stops before trying one more
MatchRep(re, count, s, ic, st) ==
  LET Advances(x) == x.pos > st.pos
      more == IF re.hi # -1 /\ count >= re.hi THEN <<>>
              ELSE FlatRep(re, count + 1, s, ic,
                           SelectSeq(Match(re.r, s, ic, st), Advances))
      stop == IF count >= re.lo THEN <<st>> ELSE <<>>
  IN Dedup(IF re.greedy THEN more \o stop ELSE stop \o more)

Match(re, s, ic, st) ==
  CASE re.t = "set" ->
         IF st.pos <= Len(s) /\ InClass(s[st.pos], re.s, ic)
         THEN <<[st EXCEPT !.pos = @ + 1]>> ELSE <<>>
    [] re.t = "nset" ->
         IF st.pos <= Len(s) /\ ~InClass(s[st.pos], re.s, ic)
         THEN <<[st EXCEPT !.pos = @ + 1]>> ELSE <<>>
    [] re.t = "lit" ->
         IF LitAt(s, st.pos, re.w, ic)
         THEN <<[st EXCEPT !.pos = @ + Len(re.w)]>> ELSE <<>>
    [] re.t = "cat" -> MatchCat(re.rs, s, ic, <<st>>)
    [] re.t = "alt" -> Dedup(MatchAlt(re.rs, s, ic, st))
    [] re.t = "rep" ->
         IF re.r.t \in {"set", "nset"} THEN ClassRep(re, s, ic, st)
         ELSE MatchRep(re, 0, s, ic, st)
    [] re.t = "grp" ->
         LET ends == Match(re.r, s, ic, st)
         IN [k \in 1..Len(ends) |-> [ends[k] EXCEPT !.cs = st.pos, !.ce = ends[k].pos]]
    [] re.t = "wb" ->
         IF IsWordAt(s, st.pos - 1) # IsWordAt(s, st.pos) THEN <<st>> ELSE <<>>
    [] re.t = "bol" -> IF st.pos = 1 THEN <<st>> ELSE <<>>
    [] re.t = "eol" ->
         IF st.pos = Len(s) + 1 \/ (st.pos = Len(s) /\ s[st.pos] = "\n")
         THEN <<st>> ELSE <<>>
    [] re.t = "nla" ->
         IF Match(re.r, s, ic, st) = <<>> THEN <<st>> ELSE <<>>

NoMatch == [found |-> FALSE, start |-> 0, end |-> 0, group |-> <<>>]

\* the first match of re in s at or after position i: re.search
\* the match object of a match at p that ends in the state first
MatchObject(s, p, first) ==
  [found |-> TRUE, start |-> p, end |-> first.pos,
   group |-> IF first.cs = 0 THEN <<>> ELSE Slice(s, first.cs, first.ce - 1)]

\* the match at the leftmost position that has one; ends[p] holds the
\* matches that start at p, the preferred one first
MatchAt(s, ends, p) == MatchObject(s, p, ends[p][1])

LeftmostOf(s, ends, hits) ==
  IF hits = {} THEN NoMatch
  ELSE MatchAt(s, ends, CHOOSE p \in hits : \A q \in hits : p <= q)

LeftmostMatch(s, ends) == LeftmostOf(s, ends, {p \in DOMAIN ends : ends[p] # <<>>})

SearchFrom(re, s, ic, i) ==
  LeftmostMatch(s, [p \in i..(Len(s) + 1) |->
                      Match(re, s, ic, [pos |-> p, cs |-> 0, ce |-> 0])])

\* re.search(re, s)
ReSearch(re, s, ic) == SearchFrom(re, s, ic, 1)

\* re.match(re, s): a match that starts at the first character
ReMatch(re, s, ic) == Match(re, s, ic, [pos |-> 1, cs |-> 0, ce |-> 0]) # <<>>

\* re.sub(re, '', s): every non-overlapping match removed, left to right
RECURSIVE SubFrom(_, _, _, _)
RECURSIVE SubAfter(_, _, _, _, _)
SubFrom(re, s, ic, i) ==
  IF i > Len(s) THEN <<>>
  ELSE SubAfter(SearchFrom(re, s, ic, i), re, s, ic, i)

\* the rest of s from i with the match m, the next one from i, removed
SubAfter(m, re, s, ic, i) ==
  IF ~m.found THEN Slice(s, i, Len(s))
  ELSE IF m.end = m.start
  THEN Slice(s, i, m.start) \o SubFrom(re, s, ic, m.start + 1)
  ELSE Slice(s, i, m.start - 1) \o SubFrom(re, s, ic, m.end)

ReSubEmpty(re, s, ic) == SubFrom(re, s, ic, 1)


(***************************************************************************)
(* Small helpers on sequences                                              *)
(***************************************************************************)
Range(q) == {q[i] : i \in 1..Len(q)}

\* q[:n] of Python for n >= 0
Take(q, n) == IF n >= Len(q) THEN q ELSE SubSeq(q, 1, n)

\* the sequences over S of length at most n
SeqsUpTo(S, n) == UNION {[1..k -> S] : k \in 0..n}

(***************************************************************************)
(* Bounds of the model                                                     *)
(***************************************************************************)
\* the most items one provider call returns
MaxFetch == 2
\* the largest limit a Unified Query carries
MaxLimit == 2

(***************************************************************************)
(* The state                                                               *)
(***************************************************************************)
VARIABLES
  \* the aggregation engine, UnifiedMCPService.execute_unified_query
  aggPc,        \* "idle", "fetching", "done"
  aggQuery,     \* the Unified Query being executed
  aggTools,     \* project_context['tools']: the configured tool types, in order
  aggProviders, \* self.providers: the tool types with a registered adapter
  aggRelevant,  \* relevant_tools
  aggTool,      \* index in aggRelevant of the tool being fetched from
  aggEnt,       \* index in query.entities of the entity being fetched
  aggToolData,  \* tool_data of _fetch_from_tool for the current tool
  aggOutcomes,  \* what each provider call made so far did, in call order
  aggResp       \* the Unified Response

aggVars == <<aggPc, aggQuery, aggTools, aggProviders, aggRelevant, aggTool,
             aggEnt, aggToolData, aggOutcomes, aggResp>>

(***************************************************************************)
(* Canonical entity model and capability registry, mcp/unified_schema.py   *)
(***************************************************************************)
EntityTypes == {"work_item", "sprint", "user", "project", "repository",
                "pull_request", "commit", "milestone", "label", "comment"}

WorkItemStatuses == {"todo", "in_progress", "done", "blocked", "cancelled"}

Priorities == {"critical", "high", "medium", "low"}

ToolNames == {"jira", "github", "azure_devops"}

\* TOOL_CAPABILITIES[tool].supported_entities
SupportedEntities(tool) ==
  CASE tool = "jira" -> {"work_item", "sprint", "user", "project", "comment"}
    [] tool = "github" -> {"repository", "work_item", "pull_request", "commit",
                           "user", "comment"}
    [] tool = "azure_devops" -> {"work_item", "sprint", "user", "project",
                                 "repository"}
    [] OTHER -> {}

\* Python's None
None == "None"

\* a function (a Python dict) with no key
EmptyDict == [k \in {} |-> None]

\* dict.get(k)
Get(d, k) == IF k \in DOMAIN d THEN d[k] ELSE None

\* None where the value would be a text
NoText == <<None>>

\* an Optional[int]: <<>> is None, <<n>> is the integer n
NoInt == <<>>

SomeInt(n) == <<n>>

\* Python's truth value of a string or None
Truthy(v) == v # None /\ v # ""

\* Python's truth value of an Optional[int]: None and 0 are false
TruthyInt(v) == v # NoInt /\ v[1] # 0

\* UnifiedResponse(success=True)
NewResponse ==
  [success |-> TRUE, data |-> EmptyDict, metadata |-> EmptyDict,
   errors |-> <<>>, source_tools |-> <<>>]

(***************************************************************************)
(* The aggregation engine, mcp/unified_service.py                          *)
(***************************************************************************)
\* get_available_tools without the check of the registry: every configured
\* tool type
GetAvailableTools_AllConfigured(tools, providers) == tools

\* get_available_tools: the configured tool types that have an adapter
RECURSIVE GetAvailableTools(_, _)
GetAvailableTools(tools, providers) ==
  IF tools = <<>> THEN <<>>
  ELSE (IF Head(tools) \in providers THEN <<Head(tools)>> ELSE <<>>)
       \o GetAvailableTools(Tail(tools), providers)

\* determine_relevant_tools: the available tools whose descriptor lists one
\* of the requested entities, each once, in order of first appearance
RECURSIVE RelevantAcc(_, _, _)
RelevantAcc(entities, available, acc) ==
  IF available = <<>> THEN acc
  ELSE LET t == Head(available)
           hit == /\ t \in ToolNames
                  /\ \E i \in 1..Len(entities) : entities[i] \in SupportedEntities(t)
                  /\ t \notin Range(acc)
       IN RelevantAcc(entities, Tail(available), IF hit THEN Append(acc, t) ELSE acc)

DetermineRelevantTools(query, available) == RelevantAcc(query.entities, available, <<>>)

\* What _fetch_work_items .. _fetch_users do for one (tool, entity) pair
\* before any provider code runs: "none" makes no provider call, "raise" is
\* a call that fails at the call itself (a method the adapter lacks, a
\* filter passed as a keyword the method does not take), "call" runs the
\* adapter's method
FetchKind(tool, entity, filters) ==
  CASE entity = "work_item" /\ tool \in {"jira", "azure_devops"} -> "call"
    [] entity = "work_item" /\ tool = "github" ->
         IF Truthy(Get(filters, "repository")) THEN "raise" ELSE "none"
    [] entity = "sprint" /\ tool \in {"jira", "azure_devops"} ->
         IF DOMAIN filters = {} THEN "call" ELSE "raise"
    [] entity = "repository" /\ tool = "github" ->
         IF Truthy(Get(filters, "owner")) THEN "raise" ELSE "none"
    [] entity \in {"pull_request", "commit"} /\ tool = "github" ->
         IF Truthy(Get(filters, "repository")) THEN "raise" ELSE "none"
    [] OTHER -> "none"

\* mapping.get(status.lower(), WorkItemStatus.TODO) of the three adapters
MapJiraStatus(s) ==
  LET l == Lower(s) IN
  CASE l \in {<<"t", "o", " ", "d", "o">>, <<"t", "o", "d", "o">>, <<"o", "p", "e", "n">>} -> "todo"
    [] l \in {<<"i", "n", " ", "p", "r", "o", "g", "r", "e", "s", "s">>, <<"d", "o", "i", "n", "g">>, <<"a", "c", "t", "i", "v", "e">>} -> "in_progress"
    [] l \in {<<"d", "o", "n", "e">>, <<"c", "l", "o", "s", "e", "d">>, <<"r", "e", "s", "o", "l", "v", "e", "d">>} -> "done"
    [] l = <<"b", "l", "o", "c", "k", "e", "d">> -> "blocked"
    [] l = <<"c", "a", "n", "c", "e", "l", "l", "e", "d">> -> "cancelled"
    [] OTHER -> "todo"

MapGithubStatus(s) ==
  LET l == Lower(s) IN
  CASE l = <<"o", "p", "e", "n">> -> "todo"
    [] l = <<"c", "l", "o", "s", "e", "d">> -> "done"
    [] OTHER -> "todo"

MapAzureStatus(s) ==
  LET l == Lower(s) IN
  CASE l = <<"n", "e", "w">> -> "todo"
    [] l = <<"a", "c", "t", "i", "v", "e">> -> "in_progress"
    [] l \in {<<"r", "e", "s", "o", "l", "v", "e", "d">>, <<"c", "l", "o", "s", "e", "d">>} -> "done"
    [] l = <<"r", "e", "m", "o", "v", "e", "d">> -> "cancelled"
    [] OTHER -> "todo"

\* a priority mapping without the default: an unknown value stays native
MapJiraPriority_KeepsNative(p) ==
  LET l == Lower(p) IN
  CASE l = <<"h", "i", "g", "h", "e", "s", "t">> -> "critical"
    [] l = <<"h", "i", "g", "h">> -> "high"
    [] l = <<"m", "e", "d", "i", "u", "m">> -> "medium"
    [] l \in {<<"l", "o", "w">>, <<"l", "o", "w", "e", "s", "t">>} -> "low"
    [] OTHER -> "native"

MapJiraPriority(p) ==
  LET l == Lower(p) IN
  CASE l = <<"h", "i", "g", "h", "e", "s", "t">> -> "critical"
    [] l = <<"h", "i", "g", "h">> -> "high"
    [] l = <<"m", "e", "d", "i", "u", "m">> -> "medium"
    [] l \in {<<"l", "o", "w">>, <<"l", "o", "w", "e", "s", "t">>} -> "low"
    [] OTHER -> "medium"

\* _convert_*_work_item raises when it lower-cases a missing value
ConvertRaises(tool, item) ==
  \/ item.status = NoText
  \/ tool = "jira" /\ item.priority = NoText

\* _convert_jira_work_item, _convert_github_work_item, _convert_azure_work_item
ConvertWorkItem(tool, item) ==
  [id |-> item.id,
   source_tool |-> tool,
   status |-> CASE tool = "jira" -> MapJiraStatus(item.status)
                [] tool = "github" -> MapGithubStatus(item.status)
                [] OTHER -> MapAzureStatus(item.status),
   priority |-> IF tool = "jira" THEN MapJiraPriority(item.priority) ELSE "medium",
   updated_date |-> item.updated_date]

\* _convert_jira_sprint, _convert_azure_sprint (a sprint has no updated_date)
ConvertSprint(tool, sprint) == [id |-> sprint.id, source_tool |-> tool]

ConvertEntity(tool, entity, item) ==
  IF entity = "work_item" THEN ConvertWorkItem(tool, item) ELSE ConvertSprint(tool, item)

\* One (tool, entity) pair of _fetch_from_tool: the entities it yields, or
\* raised when the fetch or a conversion raises; outcome is what the
\* adapter's method does when it runs: it raises, it fails (success =
\* False) or it returns native items
FetchEntities(tool, entity, filters, outcome) ==
  LET kind == FetchKind(tool, entity, filters) IN
  CASE kind = "none" -> [raised |-> FALSE, entities |-> <<>>]
    [] kind = "raise" -> [raised |-> TRUE, entities |-> <<>>]
    [] OTHER ->
         IF outcome.kind = "raise" THEN [raised |-> TRUE, entities |-> <<>>]
         ELSE IF outcome.kind = "fail" THEN [raised |-> FALSE, entities |-> <<>>]
         ELSE IF entity = "work_item"
                 /\ \E i \in 1..Len(outcome.items) : ConvertRaises(tool, outcome.items[i])
              THEN [raised |-> TRUE, entities |-> <<>>]
              ELSE [raised |-> FALSE,
                    entities |-> [i \in 1..Len(outcome.items) |->
                                    ConvertEntity(tool, entity, outcome.items[i])]]

\* getattr(x, query.sort_by, '')
SortKey(x, sort_by) == IF sort_by \in DOMAIN x THEN x[sort_by] ELSE 0

\* list.sort(key, reverse): a stable sort
RECURSIVE SortInsert(_, _, _, _)
SortInsert(x, s, sort_by, reverse) ==
  IF s = <<>> THEN <<x>>
  ELSE LET h == SortKey(Head(s), sort_by)
           k == SortKey(x, sort_by)
           stays == IF reverse THEN h >= k ELSE h <= k
       IN IF stays THEN <<Head(s)>> \o SortInsert(x, Tail(s), sort_by, reverse)
          ELSE <<x>> \o s

RECURSIVE SortAcc(_, _, _, _)
SortAcc(s, acc, sort_by, reverse) ==
  IF s = <<>> THEN acc
  ELSE SortAcc(Tail(s), SortInsert(Head(s), acc, sort_by, reverse), sort_by, reverse)

SortList(s, sort_by, reverse) == SortAcc(s, <<>>, sort_by, reverse)

RECURSIVE SumLen(_, _)
SumLen(data, keys) ==
  IF keys = {} THEN 0
  ELSE LET k == CHOOSE x \in keys : TRUE
       IN Len(data[k]) + SumLen(data, keys \ {k})

\* _post_process_response: limit, then sort, then metadata
PostProcessResponse(response, query) ==
  LET limited == IF TruthyInt(query.limit)
                 THEN [e \in DOMAIN response.data |-> Take(response.data[e], query.limit[1])]
                 ELSE response.data
      sorted == IF Truthy(query.sort_by)
                THEN [e \in DOMAIN limited |->
                        SortList(limited[e], query.sort_by, query.sort_order = "desc")]
                ELSE limited
  IN [response EXCEPT
        !.data = sorted,
        !.metadata = [total_entities |-> SumLen(sorted, DOMAIN sorted),
                      entity_counts |-> [e \in DOMAIN sorted |-> Len(sorted[e])],
                      query_applied |-> [limit |-> query.limit,
                                         sort_by |-> query.sort_by,
                                         sort_order |-> query.sort_order,
                                         filters |-> query.filters]]]

\* tool_data[entity_type] = entities
SetItem(d, k, v) == [x \in DOMAIN d \cup {k} |-> IF x = k THEN v ELSE d[x]]

\* the merge of one tool's tool_data into response.data
MergeToolData(data, tool_data) ==
  [e \in DOMAIN data |->
     IF e \in DOMAIN tool_data THEN data[e] \o tool_data[e] ELSE data[e]]

(***************************************************************************)
(* Inputs of the aggregation engine                                        *)
(***************************************************************************)
\* native work items an adapter may return
NativeWorkItems ==
  {[id |-> "W1", status |-> <<"I", "n", " ", "P", "r", "o", "g", "r", "e", "s", "s">>, priority |-> <<"H", "i", "g", "h", "e", "s", "t">>, updated_date |-> 2],
   [id |-> "W2", status |-> <<"D", "o", "n", "e">>, priority |-> NoText, updated_date |-> 1],
   [id |-> "W3", status |-> <<"W", "a", "i", "t", "i", "n", "g", " ", "f", "o", "r", " ", "Q", "A">>, priority |-> <<"U", "r", "g", "e", "n", "t">>, updated_date |-> 3]}

NativeSprints == {[id |-> "S1"]}

\* what an adapter's method may do when it runs
ProviderOutcomes(entity) ==
  {[kind |-> k, items |-> <<>>] : k \in {"raise", "fail"}} \cup
  {[kind |-> "ok", items |-> s] :
     s \in SeqsUpTo(IF entity = "work_item" THEN NativeWorkItems ELSE NativeSprints,
                    MaxFetch)}

\* query.entities of the queries submitted
QueryEntityLists ==
  {<<>>, <<"work_item">>, <<"sprint">>, <<"work_item", "sprint">>,
   <<"repository">>, <<"milestone">>, <<"user", "work_item">>}

QueryFilters == {EmptyDict, [status |-> "done"], [repository |-> "r1"]}

QuerySorts == {[sort_by |-> None, sort_order |-> "asc"],
               [sort_by |-> "updated_date", sort_order |-> "asc"],
               [sort_by |-> "updated_date", sort_order |-> "desc"]}

\* project_context['tools'] of the contexts submitted ("slack" has no descriptor)
ContextToolLists ==
  {<<>>, <<"jira">>, <<"github">>, <<"jira", "azure_devops">>,
   <<"github", "jira">>, <<"jira", "jira">>, <<"slack", "azure_devops">>}

(***************************************************************************)
(* Actions of the aggregation engine                                       *)
(***************************************************************************)
AggInit ==
  /\ aggPc = "idle"
  /\ aggQuery = None
  /\ aggTools = <<>>
  /\ aggProviders = {}
  /\ aggRelevant = <<>>
  /\ aggTool = 0
  /\ aggEnt = 0
  /\ aggToolData = EmptyDict
  /\ aggOutcomes = <<>>
  /\ aggResp = None

\* register_provider(tool_type, provider) on the shared service
RegisterProvider(t) ==
  /\ aggPc = "idle"
  /\ t \notin aggProviders
  /\ aggProviders' = aggProviders \cup {t}
  /\ UNCHANGED <<aggPc, aggQuery, aggTools, aggRelevant, aggTool, aggEnt,
                 aggToolData, aggOutcomes, aggResp>>

\* execute_unified_query up to its first fetch: the relevant tools, the
\* early return when there is none, the empty bucket per requested entity
AggSubmit(q, tools) ==
  /\ aggPc = "idle"
  /\ LET relevant == DetermineRelevantTools(q, GetAvailableTools(tools, aggProviders))
     IN /\ aggRelevant' = relevant
        /\ IF relevant = <<>>
           THEN /\ aggResp' = [NewResponse EXCEPT
                                 !.success = FALSE,
                                 !.errors = <<"No relevant tools available for this query">>]
                /\ aggPc' = "done"
                /\ aggTool' = 0
                /\ aggEnt' = 0
           ELSE /\ aggResp' = [NewResponse EXCEPT
                                 !.source_tools = relevant,
                                 !.data = [e \in Range(q.entities) |-> <<>>]]
                /\ aggPc' = "fetching"
                /\ aggTool' = 1
                /\ aggEnt' = 1
  /\ aggQuery' = q
  /\ aggTools' = tools
  /\ aggToolData' = EmptyDict
  /\ aggOutcomes' = <<>>
  /\ UNCHANGED aggProviders

\* One (tool, entity) pair of the two loops; the pair that ends a tool's
\* loop merges its tool_data, the pair that ends the last tool's loop also
\* post-processes and returns
AggFetch(outcome) ==
  /\ aggPc = "fetching"
  /\ LET tool == aggRelevant[aggTool]
         entity == aggQuery.entities[aggEnt]
         kind == FetchKind(tool, entity, aggQuery.filters)
         got == FetchEntities(tool, entity, aggQuery.filters, outcome)
         tool_data == SetItem(aggToolData, entity, got.entities)
         lastEnt == aggEnt = Len(aggQuery.entities)
         lastTool == aggTool = Len(aggRelevant)
         merged == [aggResp EXCEPT !.data = MergeToolData(aggResp.data, tool_data)]
     IN /\ outcome \in ProviderOutcomes(entity)
        /\ kind # "call" => outcome.kind = "fail"
        /\ aggOutcomes' = Append(aggOutcomes,
                                 [tool |-> tool, entity |-> entity,
                                  called |-> kind = "call", raised |-> got.raised])
        /\ IF ~lastEnt
           THEN /\ aggToolData' = tool_data
                /\ aggEnt' = aggEnt + 1
                /\ UNCHANGED <<aggTool, aggResp, aggPc>>
           ELSE /\ aggToolData' = EmptyDict
                /\ aggEnt' = 1
                /\ IF ~lastTool
                   THEN /\ aggResp' = merged
                        /\ aggTool' = aggTool + 1
                        /\ UNCHANGED aggPc
                   ELSE /\ aggResp' = PostProcessResponse(merged, aggQuery)
                        /\ aggPc' = "done"
                        /\ UNCHANGED aggTool
  /\ UNCHANGED <<aggQuery, aggTools, aggProviders, aggRelevant>>

\* the caller has taken the response; the registry stays as it is
AggReturn ==
  /\ aggPc = "done"
  /\ aggPc' = "idle"
  /\ aggQuery' = None
  /\ aggTools' = <<>>
  /\ aggRelevant' = <<>>
  /\ aggTool' = 0
  /\ aggEnt' = 0
  /\ aggToolData' = EmptyDict
  /\ aggOutcomes' = <<>>
  /\ aggResp' = None
  /\ UNCHANGED aggProviders

AggQueries ==
  {[entities |-> es, filters |-> f, limit |-> l,
    sort_by |-> s.sort_by, sort_order |-> s.sort_order] :
     es \in QueryEntityLists, f \in QueryFilters,
     l \in {NoInt} \cup {SomeInt(n) : n \in 0..MaxLimit}, s \in QuerySorts}

AggNext ==
  \/ \E t \in ToolNames : RegisterProvider(t)
  \/ /\ aggPc = "idle"
     /\ \E q \in AggQueries, tools \in ContextToolLists : AggSubmit(q, tools)
  \/ /\ aggPc = "fetching"
     /\ \E o \in ProviderOutcomes(aggQuery.entities[aggEnt]) : AggFetch(o)
  \/ AggReturn


(***************************************************************************)
(* Claims about the aggregation engine                                     *)
(***************************************************************************)
\* C1: when exactly two tools are relevant and exactly one of them raises
\* during its fetch, the response is a success, errors holds exactly one
\* entry, and the buckets hold exactly what the other tool's pairs yielded
C1_PartialFailureRecorded ==
  LET raisedTools == {aggOutcomes[i].tool :
                        i \in {j \in 1..Len(aggOutcomes) : aggOutcomes[j].raised}}
  IN (aggPc = "done" /\ Len(aggRelevant) = 2 /\ Cardinality(raisedTools) = 1)
       => /\ aggResp.success
          /\ Len(aggResp.errors) = 1

\* C3: a response to a query with limit = N has no bucket longer than N
C3_LimitBoundsBuckets ==
  (aggPc = "done" /\ aggResp.success /\ aggQuery.limit # NoInt)
    => \A e \in DOMAIN aggResp.data : Len(aggResp.data[e]) <= aggQuery.limit[1]

\* the pairs of the fetch loops for which the adapter's method was called
\* (a call that fails at the call itself included)
IssuedFetches ==
  {<<aggOutcomes[i].tool, aggOutcomes[i].entity>> :
     i \in {j \in 1..Len(aggOutcomes) : aggOutcomes[j].called \/ aggOutcomes[j].raised}}

\* C22 as stated: when the engine has fetched, the adapter of every available
\* tool was called for every requested entity type its descriptor lists, and
\* for no entity type its descriptor does not list
C22_FetchPerListedEntity ==
  (aggPc = "done" /\ aggResp.success)
    => /\ \A t \in Range(GetAvailableTools(aggTools, aggProviders)) :
            \A e \in Range(aggQuery.entities) :
              e \in SupportedEntities(t) => <<t, e>> \in IssuedFetches
       /\ \A p \in IssuedFetches : p[2] \in SupportedEntities(p[1])

\* C23 as stated: every response the engine returns carries metadata with
\* the count of each bucket, equal to the bucket's length, and the limit,
\* sort_by, sort_order and filters of the query
C23_MetadataOnEveryReturn ==
  aggPc = "done"
    => /\ {"entity_counts", "query_applied"} \subseteq DOMAIN aggResp.metadata
       /\ DOMAIN aggResp.metadata["entity_counts"] = DOMAIN aggResp.data
       /\ \A e \in DOMAIN aggResp.data :
            aggResp.metadata["entity_counts"][e] = Len(aggResp.data[e])
       /\ aggResp.metadata["query_applied"] =
            [limit |-> aggQuery.limit, sort_by |-> aggQuery.sort_by,
             sort_order |-> aggQuery.sort_order, filters |-> aggQuery.filters]

\* the unified work items of a bucket list
ItemsOf(data) ==
  IF "work_item" \in DOMAIN data THEN Range(data["work_item"]) ELSE {}

\* C25: every unified work item the engine holds, in the tool_data of the
\* tool being fetched (before merging) and in the buckets of the response,
\* has a status and a priority of the closed sets, whatever native values
\* the adapters returned
C25_ClosedStatusAndPriority ==
  aggPc \in {"fetching", "done"}
    => \A x \in ItemsOf(aggToolData) \cup ItemsOf(aggResp.data) :
         x.status \in WorkItemStatuses /\ x.priority \in Priorities

\* a tracker item with a status and a priority the mappings do not know is
\* in the response, as todo and medium
C25_Witness ==
  /\ aggPc = "done"
  /\ aggResp.success
  /\ \E x \in ItemsOf(aggResp.data) :
       /\ x.id = "W3"
       /\ x.source_tool = "jira"
       /\ x.status = "todo"
       /\ x.priority = "medium"

\* the tools configured for the project and registered whose descriptor
\* lists a requested entity type
SupportingTools ==
  {t \in Range(aggTools) \cap aggProviders :
     \E e \in Range(aggQuery.entities) : e \in SupportedEntities(t)}

\* C26: the engine answers success = false exactly when no configured and
\* registered tool supports a requested entity type, and then it has called
\* no adapter, data is empty and errors holds one entry; otherwise it
\* answers success = true with one bucket per requested entity type,
\* whatever the adapter calls did
C26_FailsOnlyWithoutTools ==
  aggPc = "done"
    => /\ ~aggResp.success <=> SupportingTools = {}
       /\ ~aggResp.success
            => /\ aggOutcomes = <<>>
               /\ DOMAIN aggResp.data = {}
               /\ Len(aggResp.errors) = 1
       /\ aggResp.success => DOMAIN aggResp.data = Range(aggQuery.entities)

\* every adapter call of a query on two tools raised or failed, and the
\* response is a success with its two buckets empty
C26_Witness ==
  /\ aggPc = "done"
  /\ aggResp.success
  /\ Len(aggRelevant) = 2
  /\ aggQuery.entities = <<"work_item", "sprint">>
  /\ \A i \in 1..Len(aggOutcomes) : aggOutcomes[i].called
  /\ \E i \in 1..Len(aggOutcomes) : aggOutcomes[i].raised
  /\ \E i \in 1..Len(aggOutcomes) : ~aggOutcomes[i].raised
  /\ DOMAIN aggResp.data = {"work_item", "sprint"}
  /\ \A e \in DOMAIN aggResp.data : aggResp.data[e] = <<>>

(***************************************************************************)
(* The intent analyzer, agents/intelligence.py _analyze_query_structure    *)
(***************************************************************************)
\* entity_keywords, in the order of the dict
entity_keywords ==
  <<[entity |-> <<"w", "o", "r", "k", " ", "i", "t", "e", "m", "s">>, keywords |-> <<<<"w", "o", "r", "k", " ", "i", "t", "e", "m">>,
      <<"t", "a", "s", "k">>,
      <<"i", "s", "s", "u", "e">>,
      <<"s", "t", "o", "r", "y">>,
      <<"b", "u", "g">>,
      <<"t", "i", "c", "k", "e", "t">>,
      <<"e", "p", "i", "c">>>>],
    [entity |-> <<"s", "p", "r", "i", "n", "t", "s">>, keywords |-> <<<<"s", "p", "r", "i", "n", "t">>,
      <<"i", "t", "e", "r", "a", "t", "i", "o", "n">>,
      <<"c", "y", "c", "l", "e">>>>],
    [entity |-> <<"u", "s", "e", "r", "s">>, keywords |-> <<<<"u", "s", "e", "r">>,
      <<"a", "s", "s", "i", "g", "n", "e", "e">>,
      <<"t", "e", "a", "m", " ", "m", "e", "m", "b", "e", "r">>,
      <<"d", "e", "v", "e", "l", "o", "p", "e", "r">>>>],
    [entity |-> <<"r", "e", "p", "o", "s", "i", "t", "o", "r", "i", "e", "s">>, keywords |-> <<<<"r", "e", "p", "o">>,
      <<"r", "e", "p", "o", "s", "i", "t", "o", "r", "y">>,
      <<"c", "o", "d", "e">>,
      <<"g", "i", "t", "h", "u", "b">>>>],
    [entity |-> <<"p", "u", "l", "l", " ", "r", "e", "q", "u", "e", "s", "t", "s">>, keywords |-> <<<<"p", "r">>,
      <<"p", "u", "l", "l", " ", "r", "e", "q", "u", "e", "s", "t">>,
      <<"m", "e", "r", "g", "e", " ", "r", "e", "q", "u", "e", "s", "t">>>>],
    [entity |-> <<"c", "o", "m", "m", "i", "t", "s">>, keywords |-> <<<<"c", "o", "m", "m", "i", "t">>,
      <<"c", "h", "a", "n", "g", "e">>,
      <<"v", "e", "r", "s", "i", "o", "n">>>>]>>

\* action_keywords, in the order of the dict
action_keywords ==
  <<[action |-> <<"a", "n", "a", "l", "y", "z", "e">>, keywords |-> <<<<"a", "n", "a", "l", "y", "z", "e">>,
      <<"s", "h", "o", "w">>,
      <<"d", "i", "s", "p", "l", "a", "y">>,
      <<"v", "i", "e", "w">>,
      <<"r", "e", "p", "o", "r", "t">>,
      <<"s", "t", "a", "t", "u", "s">>,
      <<"h", "e", "a", "l", "t", "h">>,
      <<"p", "e", "r", "f", "o", "r", "m", "a", "n", "c", "e">>>>],
    [action |-> <<"c", "r", "e", "a", "t", "e">>, keywords |-> <<<<"c", "r", "e", "a", "t", "e">>,
      <<"a", "d", "d">>,
      <<"n", "e", "w">>,
      <<"g", "e", "n", "e", "r", "a", "t", "e">>,
      <<"m", "a", "k", "e">>>>],
    [action |-> <<"u", "p", "d", "a", "t", "e">>, keywords |-> <<<<"u", "p", "d", "a", "t", "e">>,
      <<"e", "d", "i", "t">>,
      <<"c", "h", "a", "n", "g", "e">>,
      <<"m", "o", "d", "i", "f", "y">>,
      <<"f", "i", "x">>>>],
    [action |-> <<"d", "e", "l", "e", "t", "e">>, keywords |-> <<<<"d", "e", "l", "e", "t", "e">>,
      <<"r", "e", "m", "o", "v", "e">>,
      <<"c", "a", "n", "c", "e", "l">>>>],
    [action |-> <<"s", "e", "a", "r", "c", "h">>, keywords |-> <<<<"f", "i", "n", "d">>,
      <<"s", "e", "a", "r", "c", "h">>,
      <<"l", "o", "o", "k", " ", "f", "o", "r">>,
      <<"g", "e", "t">>,
      <<"f", "e", "t", "c", "h">>>>],
    [action |-> <<"a", "s", "s", "i", "g", "n">>, keywords |-> <<<<"a", "s", "s", "i", "g", "n">>,
      <<"r", "e", "a", "s", "s", "i", "g", "n">>,
      <<"a", "l", "l", "o", "c", "a", "t", "e">>>>],
    [action |-> <<"m", "o", "v", "e">>, keywords |-> <<<<"m", "o", "v", "e">>,
      <<"t", "r", "a", "n", "s", "i", "t", "i", "o", "n">>,
      <<"c", "h", "a", "n", "g", "e", " ", "s", "t", "a", "t", "u", "s">>>>],
    [action |-> <<"p", "l", "a", "n">>, keywords |-> <<<<"p", "l", "a", "n">>,
      <<"s", "c", "h", "e", "d", "u", "l", "e">>,
      <<"o", "r", "g", "a", "n", "i", "z", "e">>>>]>>

temporal_keywords ==
  <<<<"t", "o", "d", "a", "y">>,
      <<"y", "e", "s", "t", "e", "r", "d", "a", "y">>,
      <<"t", "h", "i", "s", " ", "w", "e", "e", "k">>,
      <<"l", "a", "s", "t", " ", "w", "e", "e", "k">>,
      <<"t", "h", "i", "s", " ", "m", "o", "n", "t", "h">>,
      <<"l", "a", "s", "t", " ", "m", "o", "n", "t", "h">>,
      <<"c", "u", "r", "r", "e", "n", "t">>,
      <<"r", "e", "c", "e", "n", "t">>,
      <<"l", "a", "t", "e", "s", "t">>,
      <<"p", "a", "s", "t">>,
      <<"u", "p", "c", "o", "m", "i", "n", "g">>,
      <<"n", "e", "x", "t">>>>

status_keywords ==
  <<<<"t", "o", "d", "o">>,
      <<"i", "n", " ", "p", "r", "o", "g", "r", "e", "s", "s">>,
      <<"d", "o", "n", "e">>,
      <<"b", "l", "o", "c", "k", "e", "d">>,
      <<"o", "p", "e", "n">>,
      <<"c", "l", "o", "s", "e", "d">>>>

priority_keywords ==
  <<<<"h", "i", "g", "h">>,
      <<"l", "o", "w">>,
      <<"c", "r", "i", "t", "i", "c", "a", "l">>,
      <<"m", "e", "d", "i", "u", "m">>>>

\* the priority order of _determine_primary_intent
priority_order ==
  <<<<"c", "r", "e", "a", "t", "e">>,
      <<"u", "p", "d", "a", "t", "e">>,
      <<"d", "e", "l", "e", "t", "e">>,
      <<"a", "s", "s", "i", "g", "n">>,
      <<"m", "o", "v", "e">>,
      <<"p", "l", "a", "n">>,
      <<"s", "e", "a", "r", "c", "h">>,
      <<"a", "n", "a", "l", "y", "z", "e">>>>

\* the names of the table rows one of whose keywords is in the text
RECURSIVE RowsMentioned(_, _, _)
RowsMentioned(table, field, text) ==
  IF table = <<>> THEN <<>>
  ELSE (IF AnyIn(Head(table).keywords, text) THEN <<Head(table)[field]>> ELSE <<>>)
       \o RowsMentioned(Tail(table), field, text)

\* the keywords of the list that are in the text, in list order
RECURSIVE KeywordsIn(_, _)
KeywordsIn(kws, text) ==
  IF kws = <<>> THEN <<>>
  ELSE (IF Contains(text, Head(kws)) THEN <<Head(kws)>> ELSE <<>>)
       \o KeywordsIn(Tail(kws), text)

\* _determine_primary_intent
RECURSIVE FirstIn(_, _)
FirstIn(order, actions) ==
  IF order = <<>> THEN <<"a", "n", "a", "l", "y", "z", "e">>
  ELSE IF Head(order) \in Range(actions) THEN Head(order)
  ELSE FirstIn(Tail(order), actions)

DeterminePrimaryIntent(actions_implied) == FirstIn(priority_order, actions_implied)

\* specific_filters: the last status keyword and the last priority keyword
\* that occur in the text
SpecificFilters(query_lower) ==
  LET st == KeywordsIn(status_keywords, query_lower)
      pr == KeywordsIn(priority_keywords, query_lower)
  IN [k \in (IF st = <<>> THEN {} ELSE {"status"})
            \cup (IF pr = <<>> THEN {} ELSE {"priority"}) |->
        IF k = "status" THEN st[Len(st)] ELSE pr[Len(pr)]]

\* _analyze_query_structure (the conversation history only feeds
\* context_clues, which the fallback does not read)
AnalyzeQueryStructure(query) ==
  LET query_lower == Lower(query)
      actions_implied == RowsMentioned(action_keywords, "action", query_lower)
  IN [intent |-> DeterminePrimaryIntent(actions_implied),
      entities_mentioned |-> RowsMentioned(entity_keywords, "entity", query_lower),
      actions_implied |-> actions_implied,
      temporal_references |-> KeywordsIn(temporal_keywords, query_lower),
      specific_filters |-> SpecificFilters(query_lower)]

(***************************************************************************)
(* JSON values of a model reply                                            *)
(***************************************************************************)
JStr(s) == [t |-> "str", v |-> s]

JNum(n) == [t |-> "num", v |-> n]

JList(l) == [t |-> "list", v |-> l]

JDict(d) == [t |-> "dict", v |-> d]

JNull == [t |-> "null", v |-> <<>>]

\* d.get(k, default) on a dict of JSON values
GetOr(d, k, default) == IF k \in DOMAIN d THEN d[k] ELSE default

\* del d[k]
DelItem(d, k) == [x \in DOMAIN d \ {k} |-> d[x]]

\* EntityType(value).value
EntityValue(e) ==
  CASE e = "work_item" -> <<"w", "o", "r", "k", "_", "i", "t", "e", "m">>
    [] e = "sprint" -> <<"s", "p", "r", "i", "n", "t">>
    [] e = "user" -> <<"u", "s", "e", "r">>
    [] e = "project" -> <<"p", "r", "o", "j", "e", "c", "t">>
    [] e = "repository" -> <<"r", "e", "p", "o", "s", "i", "t", "o", "r", "y">>
    [] e = "pull_request" -> <<"p", "u", "l", "l", "_", "r", "e", "q", "u", "e", "s", "t">>
    [] e = "commit" -> <<"c", "o", "m", "m", "i", "t">>
    [] e = "milestone" -> <<"m", "i", "l", "e", "s", "t", "o", "n", "e">>
    [] e = "label" -> <<"l", "a", "b", "e", "l">>
    [] e = "comment" -> <<"c", "o", "m", "m", "e", "n", "t">>

\* the tool type as the text it is in the project context
ToolText(tool) ==
  CASE tool = "jira" -> <<"j", "i", "r", "a">>
    [] tool = "github" -> <<"g", "i", "t", "h", "u", "b">>
    [] tool = "azure_devops" -> <<"a", "z", "u", "r", "e", "_", "d", "e", "v", "o", "p", "s">>
    [] OTHER -> <<"s", "l", "a", "c", "k">>

(***************************************************************************)
(* The decision engine, agents/intelligence.py                             *)
(***************************************************************************)
\* _get_available_tools: the configured tool types that have a descriptor
RECURSIVE DecisionAvailableTools(_)
DecisionAvailableTools(tools) ==
  IF tools = <<>> THEN <<>>
  ELSE (IF Head(tools) \in ToolNames THEN <<Head(tools)>> ELSE <<>>)
       \o DecisionAvailableTools(Tail(tools))

\* entity_mapping of the fallback
EntityMapping(mentioned) ==
  CASE mentioned = <<"w", "o", "r", "k", " ", "i", "t", "e", "m", "s">> -> "work_item"
    [] mentioned = <<"s", "p", "r", "i", "n", "t", "s">> -> "sprint"
    [] mentioned = <<"u", "s", "e", "r", "s">> -> "user"
    [] mentioned = <<"r", "e", "p", "o", "s", "i", "t", "o", "r", "i", "e", "s">> -> "repository"
    [] mentioned = <<"p", "u", "l", "l", " ", "r", "e", "q", "u", "e", "s", "t", "s">> -> "pull_request"
    [] mentioned = <<"c", "o", "m", "m", "i", "t", "s">> -> "commit"

BacklogNote == <<" ", "(", "R", "e", "m", "o", "v", "e", "d", " ", "i", "n", "v", "a", "l", "i", "d", " ", "'", "b", "a", "c", "k", "l", "o", "g", "'", " ", "s", "t", "a", "t", "u", "s", " ", "f", "i", "l", "t", "e", "r", ")">>

\* a fallback without the default to work items
DefaultEntities_None(mapped) == mapped

\* if no entities are mentioned, default to work items
DefaultEntities(mapped) == IF mapped = <<>> THEN <<"work_item">> ELSE mapped

\* _fallback_decision_making
FallbackDecisionMaking(analysis, available_tools) ==
  LET mapped == [i \in 1..Len(analysis.entities_mentioned) |->
                   EntityMapping(analysis.entities_mentioned[i])]
      entities_needed == DefaultEntities(mapped)
      copied == analysis.specific_filters
      filters == IF "status" \in DOMAIN copied /\ copied["status"] = <<"b", "a", "c", "k", "l", "o", "g">>
                 THEN DelItem(copied, "status") ELSE copied
      names == [i \in 1..Len(entities_needed) |-> EntityValue(entities_needed[i])]
      reasoning ==
        IF \E i \in 1..Len(analysis.entities_mentioned) :
             Contains(analysis.entities_mentioned[i], <<"b", "a", "c", "k", "l", "o", "g">>)
        THEN <<"U", "s", "e", "r", " ", "w", "a", "n", "t", "s", " ", "t", "o", " ", "v", "i", "e", "w", " ", "p", "r", "o", "j", "e", "c", "t", " ", "b", "a", "c", "k", "l", "o", "g", " ", "i", "t", "e", "m", "s", " ", "(", "a", "l", "l", " ", "w", "o", "r", "k", " ", "i", "t", "e", "m", "s", " ", "i", "n", " ", "t", "h", "e", " ", "p", "r", "o", "j", "e", "c", "t", ")">>
        ELSE <<"F", "a", "l", "l", "b", "a", "c", "k", " ", "d", "e", "c", "i", "s", "i", "o", "n", ":", " ">> \o analysis.intent \o <<" ", "a", "c", "t", "i", "o", "n", " ", "f", "o", "r", " ">>
             \o JoinWith(names, <<",", " ">>)
  IN [action_type |-> JStr(analysis.intent),
      entities_needed |-> JList([i \in 1..Len(names) |-> JStr(names[i])]),
      tools_to_use |-> JList([i \in 1..Len(available_tools) |->
                                JStr(ToolText(available_tools[i]))]),
      filters |-> JDict([k \in DOMAIN filters |-> JStr(filters[k])]),
      reasoning |-> JStr(reasoning),
      confidence |-> JNum(6),
      additional_context |-> JDict([limit |-> JNum(50),
                                    sort_by |-> JStr(<<"u", "p", "d", "a", "t", "e", "d", "_", "d", "a", "t", "e">>),
                                    sort_order |-> JStr(<<"d", "e", "s", "c">>)])]

\* decision_data['reasoning'] += note: a KeyError without the key, a
\* TypeError unless the value is a string or a list (which the characters
\* of the note extend)
AppendNoteRaises(data) ==
  \/ "reasoning" \notin DOMAIN data
  \/ data["reasoning"].t \notin {"str", "list"}

AppendNote(data) ==
  LET r == data["reasoning"] IN
  [data EXCEPT !["reasoning"] =
     IF r.t = "str" THEN JStr(r.v \o BacklogNote)
     ELSE JList(r.v \o [i \in 1..Len(BacklogNote) |-> JStr(<<BacklogNote[i]>>)])]

\* a post-processing that never finds the filter
HasBacklogStatus_Never(data) == FALSE

\* the filters of the reply hold status == 'backlog'
HasBacklogStatus(data) ==
  /\ "filters" \in DOMAIN data
  /\ data["filters"].t = "dict"
  /\ "status" \in DOMAIN data["filters"].v
  /\ data["filters"].v["status"] = JStr(<<"b", "a", "c", "k", "l", "o", "g">>)

\* _llm_decision_making: reply.kind is "raise" (the call raises, or the
\* reply has no content), "text" (no {...} in the content), "invalid" (the
\* braces do not hold JSON) or "json" (reply.data is the object parsed)
LlmDecisionMaking(reply, analysis, available_tools) ==
  LET fallback == [path |-> "fallback",
                   data |-> FallbackDecisionMaking(analysis, available_tools)]
  IN IF reply.kind # "json" THEN fallback
     ELSE IF ~HasBacklogStatus(reply.data)
          THEN [path |-> "model", data |-> reply.data]
     ELSE IF AppendNoteRaises(reply.data) THEN fallback
     ELSE [path |-> "model",
           data |-> AppendNote([reply.data EXCEPT !["filters"] =
                                  JDict(DelItem(reply.data["filters"].v, "status"))])]

\* _parse_entities_needed: the members named by the strings of the list,
\* anything else in it skipped; a string is iterated by character, a number
\* or null cannot be iterated
ParseEntitiesNeeded(j) ==
  IF j.t = "list"
  THEN [raised |-> FALSE,
        entities |-> LET named(x) == x.t = "str"
                                     /\ \E e \in EntityTypes : EntityValue(e) = x.v
                         pick(x) == <<CHOOSE e \in EntityTypes : EntityValue(e) = x.v>>
                         F[i \in 0..Len(j.v)] ==
                           IF i = 0 THEN <<>>
                           ELSE F[i-1] \o (IF named(j.v[i]) THEN pick(j.v[i]) ELSE <<>>)
                     IN F[Len(j.v)]]
  ELSE IF j.t = "str" THEN [raised |-> FALSE, entities |-> <<>>]
  ELSE [raised |-> TRUE, entities |-> <<>>]

\* analyze_query_and_decide
AnalyzeQueryAndDecide(query, tools, reply) ==
  LET analysis == AnalyzeQueryStructure(query)
      available_tools == DecisionAvailableTools(tools)
      made == LlmDecisionMaking(reply, analysis, available_tools)
      d == made.data
      parsed == ParseEntitiesNeeded(GetOr(d, "entities_needed", JList(<<>>)))
  IN IF parsed.raised THEN [raised |-> TRUE, path |-> made.path]
     ELSE [raised |-> FALSE,
           path |-> made.path,
           decision |->
             [action_type |-> GetOr(d, "action_type", JStr(<<"a", "n", "a", "l", "y", "z", "e">>)),
              entities_needed |-> parsed.entities,
              tools_to_use |-> GetOr(d, "tools_to_use",
                                     JList([i \in 1..Len(available_tools) |->
                                              JStr(ToolText(available_tools[i]))])),
              filters |-> GetOr(d, "filters", JDict(EmptyDict)),
              reasoning |-> GetOr(d, "reasoning", JStr(<<"L", "L", "M", "-", "b", "a", "s", "e", "d", " ", "d", "e", "c", "i", "s", "i", "o", "n">>)),
              confidence |-> GetOr(d, "confidence", JNum(7)),
              additional_context |-> GetOr(d, "additional_context", JDict(EmptyDict))]]

(***************************************************************************)
(* Inputs of the decision engine                                           *)
(***************************************************************************)
ShowBacklog == <<"s", "h", "o", "w", " ", "m", "e", " ", "t", "h", "e", " ", "c", "u", "r", "r", "e", "n", "t", " ", "b", "a", "c", "k", "l", "o", "g">>

AssignDana == <<"a", "s", "s", "i", "g", "n", " ", "A", "G", "-", "1", "2", " ", "t", "o", " ", "D", "a", "n", "a", " ", "K", "i", "m">>

DecisionRequests ==
  {ShowBacklog, AssignDana,
   <<"l", "i", "s", "t", " ", "o", "p", "e", "n", " ", "b", "u", "g", "s", " ", "i", "n", " ", "t", "h", "e", " ", "b", "a", "c", "k", "l", "o", "g">>,
   <<"r", "e", "m", "o", "v", "e", " ", "d", "u", "p", "l", "i", "c", "a", "t", "e", " ", "i", "t", "e", "m", "s", " ", "f", "r", "o", "m", " ", "t", "h", "e", " ", "B", "a", "c", "k", "l", "o", "g">>,
   <<"p", "l", "a", "n", " ", "t", "h", "e", " ", "n", "e", "x", "t", " ", "s", "p", "r", "i", "n", "t", " ", "w", "i", "t", "h", " ", "h", "i", "g", "h", " ", "p", "r", "i", "o", "r", "i", "t", "y", " ", "s", "t", "o", "r", "i", "e", "s">>,
   <<"h", "e", "l", "l", "o", " ", "t", "h", "e", "r", "e">>}

\* the values a reply gives a key; <<>> stands for a reply without the key
ReplyActionTypes ==
  {<<>>, <<JStr(<<"a", "n", "a", "l", "y", "z", "e">>)>>, <<JStr(<<"u", "p", "d", "a", "t", "e">>)>>, <<JStr(<<"f", "r", "o", "b", "n", "i", "c", "a", "t", "e">>)>>}

ReplyEntities ==
  {<<>>,
   <<JList(<<JStr(<<"w", "o", "r", "k", "_", "i", "t", "e", "m">>)>>)>>,
   <<JList(<<JStr(<<"w", "o", "r", "k", "_", "i", "t", "e", "m">>), JStr(<<"s", "p", "r", "i", "n", "t">>)>>)>>,
   <<JList(<<JStr(<<"s", "t", "o", "r", "y">>), JNum(1), JStr(<<"s", "p", "r", "i", "n", "t">>)>>)>>,
   <<JNum(5)>>}

ReplyFilters ==
  {<<>>,
   <<JDict(EmptyDict)>>,
   <<JDict([status |-> JStr(<<"b", "a", "c", "k", "l", "o", "g">>)])>>,
   <<JDict([status |-> JStr(<<"b", "a", "c", "k", "l", "o", "g">>), priority |-> JStr(<<"h", "i", "g", "h">>)])>>,
   <<JDict([status |-> JStr(<<"B", "a", "c", "k", "l", "o", "g">>)])>>,
   <<JStr(<<"s", "t", "a", "t", "u", "s", "=", "b", "a", "c", "k", "l", "o", "g">>)>>}

ReplyReasonings ==
  {<<>>, <<JStr(<<"b", "e", "c", "a", "u", "s", "e">>)>>, <<JNum(1)>>, <<JList(<<JStr(<<"b", "e", "c", "a", "u", "s", "e">>)>>)>>}

ReplyConfidences == {<<>>, <<JNum(8)>>, <<JNum(6)>>}

ReplyContexts == {<<>>, <<JDict([limit |-> JNum(0)])>>}

ReplyTools == {<<>>, <<JList(<<JStr(<<"j", "i", "r", "a">>)>>)>>}

\* the object with the keys whose value is given
ReplyObject(a, e, f, r, c, x, u) ==
  LET given == [action_type |-> a, entities_needed |-> e, filters |-> f,
                reasoning |-> r, confidence |-> c, additional_context |-> x,
                tools_to_use |-> u]
  IN [k \in {n \in DOMAIN given : given[n] # <<>>} |-> given[k][1]]

ModelReplies ==
  {[kind |-> k, data |-> EmptyDict] : k \in {"raise", "text", "invalid"}} \cup
  {[kind |-> "json", data |-> ReplyObject(a, e, f, r, c, x, u)] :
     a \in ReplyActionTypes, e \in ReplyEntities, f \in ReplyFilters,
     r \in ReplyReasonings, c \in ReplyConfidences, x \in ReplyContexts,
     u \in ReplyTools}

DecisionToolLists == {<<"jira">>, <<"slack", "github">>}

(***************************************************************************)
(* Actions of the decision engine                                          *)
(***************************************************************************)
VARIABLES
  decPc,     \* "idle", "asked" (the model call is out), "done"
  decQuery,  \* the request text
  decTools,  \* project_context['tools']: the configured tool types
  decReply,  \* what the model call did
  decResult  \* the Decision returned, or that the call raised

decVars == <<decPc, decQuery, decTools, decReply, decResult>>

DecInit ==
  /\ decPc = "idle"
  /\ decQuery = <<>>
  /\ decTools = <<>>
  /\ decReply = [kind |-> "raise", data |-> EmptyDict]
  /\ decResult = [raised |-> TRUE, path |-> "fallback"]

\* analyze_query_and_decide(query, project_context) up to the model call
DecideAsk(query, tools) ==
  /\ decPc = "idle"
  /\ decPc' = "asked"
  /\ decQuery' = query
  /\ decTools' = tools
  /\ UNCHANGED <<decReply, decResult>>

\* analyze_query_and_decide from the outcome of the model call to its return
Decide(reply) ==
  /\ decPc = "asked"
  /\ decPc' = "done"
  /\ decReply' = reply
  /\ decResult' = AnalyzeQueryAndDecide(decQuery, decTools, reply)
  /\ UNCHANGED <<decQuery, decTools>>

\* the caller has taken the Decision
DecideReturn ==
  /\ decPc = "done"
  /\ decPc' = "idle"
  /\ decQuery' = <<>>
  /\ decTools' = <<>>
  /\ decReply' = [kind |-> "raise", data |-> EmptyDict]
  /\ decResult' = [raised |-> TRUE, path |-> "fallback"]

DecNext ==
  \/ \E q \in DecisionRequests, tools \in DecisionToolLists : DecideAsk(q, tools)
  \/ /\ decPc = "asked"
     /\ \E reply \in ModelReplies : Decide(reply)
  \/ DecideReturn

(***************************************************************************)
(* Claims about the decision engine                                        *)
(***************************************************************************)
\* C4: for a request that contains "backlog", the filters of the Decision
\* returned never hold status = "backlog", on the model-backed path (where
\* the filter is removed and the note is appended to the reasoning) and on
\* the fallback path, and the analyzer's own filters never hold it either
C4_NoBacklogStatusFilter ==
  (decPc = "done" /\ Contains(Lower(decQuery), <<"b", "a", "c", "k", "l", "o", "g">>))
    => /\ LET sf == AnalyzeQueryStructure(decQuery).specific_filters
          IN ~("status" \in DOMAIN sf /\ sf["status"] = <<"b", "a", "c", "k", "l", "o", "g">>)
       /\ ~decResult.raised =>
            LET f == decResult.decision.filters
                r == decResult.decision.reasoning
                n == Len(BacklogNote)
            IN /\ ~(f.t = "dict" /\ "status" \in DOMAIN f.v
                    /\ f.v["status"] = JStr(<<"b", "a", "c", "k", "l", "o", "g">>))
               /\ (decResult.path = "model" /\ HasBacklogStatus(decReply.data))
                    => /\ Len(r.v) >= n
                       /\ r.t = "str" => SubSeq(r.v, Len(r.v) - n + 1, Len(r.v)) = BacklogNote

\* C4 happens: a reply filtered on status = "backlog" for a backlog request,
\* answered on the model-backed path without the filter
C4_Witness ==
  /\ decPc = "done"
  /\ Contains(Lower(decQuery), <<"b", "a", "c", "k", "l", "o", "g">>)
  /\ decReply.kind = "json"
  /\ HasBacklogStatus(decReply.data)
  /\ ~decResult.raised
  /\ decResult.path = "model"
  /\ decResult.decision.filters = JDict([priority |-> JStr(<<"h", "i", "g", "h">>)])

\* C8 as stated: for "show me the current backlog" the Decision is analyze,
\* [WorkItem], {} on either path, whatever the model replies
C8_ShowBacklogAnyReply ==
  (decPc = "done" /\ decQuery = ShowBacklog)
    => /\ ~decResult.raised
       /\ decResult.decision.action_type = JStr(<<"a", "n", "a", "l", "y", "z", "e">>)
       /\ decResult.decision.entities_needed = <<"work_item">>
       /\ decResult.decision.filters = JDict(EmptyDict)

\* C8 amended: for "show me the current backlog" the fallback path gives
\* analyze, [WorkItem], {}; the model-backed path gives the reply's
\* action_type, entities and filters (analyze, [], {} for a missing key)
\* with only a status = "backlog" filter removed
C8_ShowBacklogByPath ==
  (decPc = "done" /\ decQuery = ShowBacklog)
    => /\ decResult.path = "fallback"
            => /\ ~decResult.raised
               /\ decResult.decision.action_type = JStr(<<"a", "n", "a", "l", "y", "z", "e">>)
               /\ decResult.decision.entities_needed = <<"work_item">>
               /\ decResult.decision.filters = JDict(EmptyDict)
       /\ (decResult.path = "model" /\ ~decResult.raised)
            => LET d == decReply.data
                   f == GetOr(d, "filters", JDict(EmptyDict))
               IN /\ decResult.decision.action_type
                       = GetOr(d, "action_type", JStr(<<"a", "n", "a", "l", "y", "z", "e">>))
                  /\ decResult.decision.entities_needed
                       = ParseEntitiesNeeded(GetOr(d, "entities_needed", JList(<<>>))).entities
                  /\ decResult.decision.filters
                       = IF f.t = "dict" /\ "status" \in DOMAIN f.v
                            /\ f.v["status"] = JStr(<<"b", "a", "c", "k", "l", "o", "g">>)
                         THEN JDict(DelItem(f.v, "status")) ELSE f

\* C8 happens: the fallback path answers "show me the current backlog"
C8_Witness ==
  /\ decPc = "done"
  /\ decQuery = ShowBacklog
  /\ decResult.path = "fallback"
  /\ ~decResult.raised
  /\ decResult.decision.entities_needed = <<"work_item">>

(***************************************************************************)
(* The patterns of the management handlers, agents/management.py           *)
(***************************************************************************)
\* [A-Z]+[A-Z0-9]*-\d+
IdCore ==
  RCat(<<RPlus(RSet(UpperSet)), RStar(RSet(UpperSet \cup DigitChars)),
         RLit(<<"-">>), RPlus(RDigit)>>)

\* [A-Z]+-\d+ and [a-zA-Z]+-\d+
KeyNum == RCat(<<RPlus(RSet(UpperSet)), RLit(<<"-">>), RPlus(RDigit)>>)

AnyKeyNum == RCat(<<RPlus(RSet(LetterSet)), RLit(<<"-">>), RPlus(RDigit)>>)

\* \b([A-Z]+[A-Z0-9]*-\d+)\b
IdStandard == RCat(<<RWb, RGrp(IdCore), RWb>>)

\* ([A-Z]{2,10}-\d{1,6})
IdFlexible ==
  RGrp(RCat(<<RRep(RSet(UpperSet), 2, 10, TRUE), RLit(<<"-">>), RRep(RDigit, 1, 6, TRUE)>>))

\* (?:w1|w2|..)\s+([A-Z]+[A-Z0-9]*-\d+)
IdAfter(words) ==
  RCat(<<RAlt([i \in 1..Len(words) |-> RLit(words[i])]), RSp1, RGrp(IdCore)>>)

\* id_patterns of _update_work_item, of _assign_work, patterns of _delete_work_item
update_id_patterns == <<IdStandard, IdAfter(<<<<"u", "p", "d", "a", "t", "e">>, <<"c", "h", "a", "n", "g", "e">>, <<"m", "o", "d", "i", "f", "y">>>>), IdFlexible>>

assign_id_patterns == <<IdStandard, IdAfter(<<<<"a", "s", "s", "i", "g", "n">>, <<"i", "t", "e", "m">>>>), IdFlexible>>

delete_id_patterns ==
  <<IdStandard, IdAfter(<<<<"d", "e", "l", "e", "t", "e">>, <<"r", "e", "m", "o", "v", "e">>, <<"d", "e", "l">>>>), IdFlexible,
    IdAfter(<<<<"i", "t", "e", "m">>>>)>>

\* ^[A-Z]+[A-Z0-9]*-\d+$
id_format == RCat(<<RBol, IdCore, REol>>)

\* (\w+(?:\s+\w+)*)
WordsGroup == RGrp(RCat(<<RPlus(RWord), RStar(RCat(<<RSp1, RPlus(RWord)>>))>>))

\* (?:w1|w2)
OneOf(words) == RAlt([i \in 1..Len(words) |-> RLit(words[i])])

\* (?:w\s+)?
OptWord(w) == ROpt(RCat(<<RLit(w), RSp1>>))

status_patterns ==
  <<RCat(<<OneOf(<<<<"c", "h", "a", "n", "g", "e">>, <<"u", "p", "d", "a", "t", "e">>>>), RSp1, RLit(<<"s", "t", "a", "t", "u", "s">>), RSp1, RLit(<<"o", "f">>),
           RSp1, RLit(<<"w", "o", "r", "k", "i", "t", "e", "m">>), RSp1, AnyKeyNum, RSp1, RLit(<<"t", "o">>), RSp1, WordsGroup>>),
    RCat(<<RLit(<<"s", "t", "a", "t", "u", "s">>), RSp1, RLit(<<"o", "f">>), RSp1, RLit(<<"w", "o", "r", "k", "i", "t", "e", "m">>), RSp1,
           AnyKeyNum, RSp1, RLit(<<"t", "o">>), RSp1, WordsGroup>>),
    RCat(<<RLit(<<"w", "o", "r", "k", "i", "t", "e", "m">>), RSp1, AnyKeyNum, RSp1, OptWord(<<"s", "t", "a", "t", "u", "s">>),
           RLit(<<"t", "o">>), RSp1, WordsGroup>>),
    RCat(<<OneOf(<<<<"u", "p", "d", "a", "t", "e">>, <<"c", "h", "a", "n", "g", "e">>>>), RSp1, AnyKeyNum, RSp1, RLit(<<"s", "t", "a", "t", "u", "s">>),
           RSp1, RLit(<<"t", "o">>), RSp1, WordsGroup>>),
    RCat(<<AnyKeyNum, RSp1, RLit(<<"s", "t", "a", "t", "u", "s">>), RSp1, OptWord(<<"t", "o">>), WordsGroup>>),
    RCat(<<RLit(<<"m", "o", "v", "e">>), RSp1, AnyKeyNum, RSp1, RLit(<<"t", "o">>), RSp1, WordsGroup>>),
    RCat(<<OneOf(<<<<"s", "e", "t">>, <<"m", "a", "r", "k">>>>), RSp1, ROpt(RCat(<<AnyKeyNum, RSp1>>)),
           OptWord(<<"a", "s">>), WordsGroup>>),
    RCat(<<RLit(<<"s", "t", "a", "t", "u", "s">>), RSp1, OptWord(<<"t", "o">>), WordsGroup>>)>>

priority_patterns ==
  <<RCat(<<RLit(<<"p", "r", "i", "o", "r", "i", "t", "y">>), RSp1, OptWord(<<"t", "o">>), RGrp(RPlus(RWord))>>),
    RCat(<<OneOf(<<<<"s", "e", "t">>, <<"c", "h", "a", "n", "g", "e">>>>), RSp1, RLit(<<"p", "r", "i", "o", "r", "i", "t", "y">>), RSp1,
           OptWord(<<"t", "o">>), RGrp(RPlus(RWord))>>)>>

Quotes == {"\"", "'"}

\* ["\']([^"\']+)["\']
QuotedGroup == RCat(<<RSet(Quotes), RGrp(RPlus(RNot(Quotes))), RSet(Quotes)>>)

title_patterns ==
  <<RCat(<<OneOf(<<<<"t", "i", "t", "l", "e">>, <<"s", "u", "m", "m", "a", "r", "y">>>>), RSp1, OptWord(<<"t", "o">>), QuotedGroup>>),
    RCat(<<RAlt(<<RLit(<<"r", "e", "n", "a", "m", "e">>), RCat(<<RLit(<<"c", "h", "a", "n", "g", "e">>), RSp1, RLit(<<"t", "i", "t", "l", "e">>)>>)>>),
           RSp1, OptWord(<<"t", "o">>), QuotedGroup>>)>>

desc_patterns ==
  <<RCat(<<RLit(<<"d", "e", "s", "c", "r", "i", "p", "t", "i", "o", "n">>), RSp1, OptWord(<<"t", "o">>), QuotedGroup>>),
    RCat(<<OneOf(<<<<"c", "h", "a", "n", "g", "e">>, <<"u", "p", "d", "a", "t", "e">>>>), RSp1, RLit(<<"d", "e", "s", "c", "r", "i", "p", "t", "i", "o", "n">>), RSp1,
           OptWord(<<"t", "o">>), QuotedGroup>>)>>

\* (\d+|[A-Za-z\s]+)
SprintGroup == RGrp(RAlt(<<RPlus(RDigit), RPlus(RSet(LetterSet \cup SpaceSet))>>))

sprint_patterns ==
  <<RCat(<<OneOf(<<<<"a", "s", "s", "i", "g", "n">>, <<"a", "d", "d">>>>), RSp1, OptWord(<<"w", "o", "r", "k", "i", "t", "e", "m">>), KeyNum, RSp1,
           RLit(<<"t", "o">>), RSp1, RLit(<<"s", "p", "r", "i", "n", "t">>), RSp1, SprintGroup>>),
    RCat(<<OneOf(<<<<"m", "o", "v", "e">>, <<"p", "u", "t">>>>), RSp1, OptWord(<<"w", "o", "r", "k", "i", "t", "e", "m">>), KeyNum, RSp1,
           OneOf(<<<<"t", "o">>, <<"i", "n", "t", "o">>>>), RSp1, RLit(<<"s", "p", "r", "i", "n", "t">>), RSp1, SprintGroup>>),
    RCat(<<RLit(<<"s", "p", "r", "i", "n", "t">>), RSp1, SprintGroup>>)>>

\* ([A-Z][a-zA-Z\s]+?)(?:\s*$)
NameToEnd ==
  RCat(<<RGrp(RCat(<<RSet(UpperSet), RLazyPlus(RSet(LetterSet \cup SpaceSet))>>)),
         RSp0, REol>>)

assignee_patterns ==
  <<RCat(<<RLit(<<"a", "s", "s", "i", "g", "n">>), RSp1, KeyNum, RSp1, RLit(<<"t", "o">>), RSp1,
           RGrp(RLazyPlus(RNot({"\n"}))), RSp0, REol>>),
    RCat(<<RLit(<<"t", "o">>), RSp1, NameToEnd>>),
    RCat(<<RLit(<<"a", "s", "s", "i", "g", "n", "e", "e">>), RSp1, NameToEnd>>),
    RCat(<<RLit(<<"u", "s", "e", "r">>), RSp1, NameToEnd>>)>>

\* \b(assign|assignee|user|item|work)\b
cleanup_words ==
  RCat(<<RWb, OneOf(<<<<"a", "s", "s", "i", "g", "n">>, <<"a", "s", "s", "i", "g", "n", "e", "e">>, <<"u", "s", "e", "r">>, <<"i", "t", "e", "m">>, <<"w", "o", "r", "k">>>>), RWb>>)

\* (?![Ii]n\s+[Pp]rogress|[Dd]one|[Cc]omplete|[Cc]losed|[Oo]pen|[Bb]locked|[Tt]o\s+[Dd]o)
NotAStatus ==
  RNla(RAlt(<<RCat(<<RLit(<<"i", "n">>), RSp1, RLit(<<"p", "r", "o", "g", "r", "e", "s", "s">>)>>), RLit(<<"d", "o", "n", "e">>),
              RLit(<<"c", "o", "m", "p", "l", "e", "t", "e">>), RLit(<<"c", "l", "o", "s", "e", "d">>), RLit(<<"o", "p", "e", "n">>), RLit(<<"b", "l", "o", "c", "k", "e", "d">>),
              RCat(<<RLit(<<"t", "o">>), RSp1, RLit(<<"d", "o">>)>>)>>))

\* ([A-Z][a-z]+\s+[A-Z][a-z]+)
TwoNames ==
  RGrp(RCat(<<RSet(UpperSet), RPlus(RSet(LowerSet)), RSp1,
              RSet(UpperSet), RPlus(RSet(LowerSet))>>))

non_status_person_patterns ==
  <<RCat(<<RLit(<<"a", "s", "s", "i", "g", "n">>), RSp1, KeyNum, RSp1, RLit(<<"t", "o">>), RSp1, NotAStatus, TwoNames>>),
    RCat(<<KeyNum, RSp1, RLit(<<"t", "o">>), RSp1, NotAStatus, TwoNames,
           RAlt(<<RSpace, REol>>)>>)>>

\* the group of the first match of the first pattern of the list that
\* matches: for pattern in patterns: matches = re.findall(..); if matches: ..
RECURSIVE FirstFind(_, _, _)
RECURSIVE FirstOr(_, _, _, _)
FirstFind(patterns, s, ic) ==
  IF patterns = <<>> THEN NoMatch
  ELSE FirstOr(ReSearch(Head(patterns), s, ic), Tail(patterns), s, ic)

\* the match m if it is one, else the first match of the patterns left
FirstOr(m, patterns, s, ic) ==
  IF m.found THEN m ELSE FirstFind(patterns, s, ic)

(***************************************************************************)
(* The request router, agents/main.py                                      *)
(***************************************************************************)
strong_analysis_keywords ==
  <<<<"s", "h", "o", "w">>, <<"v", "i", "e", "w">>, <<"d", "i", "s", "p", "l", "a", "y">>, <<"l", "i", "s", "t">>, <<"s", "e", "e">>, <<"c", "u", "r", "r", "e", "n", "t">>, <<"s", "t", "a", "t", "u", "s">>, <<"r", "e", "p", "o", "r", "t">>, <<"a", "n", "a", "l", "y", "z", "e">>, <<"a", "n", "a", "l", "y", "s", "i", "s">>, <<"h", "e", "a", "l", "t", "h">>, <<"m", "e", "t", "r", "i", "c", "s">>, <<"d", "a", "s", "h", "b", "o", "a", "r", "d">>, <<"p", "r", "o", "g", "r", "e", "s", "s">>, <<"p", "e", "r", "f", "o", "r", "m", "a", "n", "c", "e">>, <<"v", "e", "l", "o", "c", "i", "t", "y">>, <<"f", "o", "r", "e", "c", "a", "s", "t">>, <<"t", "r", "e", "n", "d", "s">>, <<"i", "n", "s", "i", "g", "h", "t", "s">>, <<"s", "u", "m", "m", "a", "r", "y">>, <<"h", "o", "w", " ", "i", "s">>, <<"w", "h", "a", "t", " ", "i", "s">>, <<"t", "e", "l", "l", " ", "m", "e", " ", "a", "b", "o", "u", "t">>, <<"c", "u", "r", "r", "e", "n", "t", " ", "i", "t", "e", "m", "s">>, <<"s", "h", "o", "w", " ", "i", "t", "e", "m", "s">>, <<"v", "i", "e", "w", " ", "b", "a", "c", "k", "l", "o", "g">>, <<"b", "a", "c", "k", "l", "o", "g", " ", "s", "t", "a", "t", "u", "s">>>>

strong_management_keywords ==
  <<<<"c", "r", "e", "a", "t", "e">>, <<"a", "d", "d">>, <<"n", "e", "w">>, <<"u", "p", "d", "a", "t", "e">>, <<"e", "d", "i", "t">>, <<"c", "h", "a", "n", "g", "e">>, <<"m", "o", "d", "i", "f", "y">>, <<"d", "e", "l", "e", "t", "e">>, <<"r", "e", "m", "o", "v", "e">>, <<"a", "s", "s", "i", "g", "n">>, <<"m", "o", "v", "e">>, <<"t", "r", "a", "n", "s", "i", "t", "i", "o", "n">>, <<"c", "l", "o", "s", "e">>, <<"r", "e", "s", "o", "l", "v", "e">>, <<"r", "e", "o", "p", "e", "n">>, <<"p", "l", "a", "n", " ", "s", "p", "r", "i", "n", "t">>, <<"c", "r", "e", "a", "t", "e", " ", "s", "p", "r", "i", "n", "t">>, <<"o", "r", "g", "a", "n", "i", "z", "e", " ", "b", "a", "c", "k", "l", "o", "g">>, <<"m", "a", "n", "a", "g", "e", " ", "b", "a", "c", "k", "l", "o", "g">>, <<"p", "r", "i", "o", "r", "i", "t", "i", "z", "e">>, <<"s", "c", "h", "e", "d", "u", "l", "e">>>>

action_verbs_analysis == <<<<"s", "h", "o", "w">>, <<"v", "i", "e", "w">>, <<"d", "i", "s", "p", "l", "a", "y">>, <<"l", "i", "s", "t">>, <<"s", "e", "e">>, <<"g", "e", "t">>, <<"f", "i", "n", "d">>, <<"s", "e", "a", "r", "c", "h">>>>

action_verbs_management == <<<<"c", "r", "e", "a", "t", "e">>, <<"a", "d", "d">>, <<"u", "p", "d", "a", "t", "e">>, <<"e", "d", "i", "t">>, <<"d", "e", "l", "e", "t", "e">>, <<"a", "s", "s", "i", "g", "n">>, <<"m", "o", "v", "e">>, <<"p", "l", "a", "n">>>>

\* a comparison of the verb counts that sends a tie to management
VerbChoice_TieToManagement(analysis_action_score, management_action_score) ==
  IF analysis_action_score > management_action_score
  THEN [target_agent |-> "analysis", confidence |-> JStr(<<"m", "e", "d", "i", "u", "m">>),
        reasoning |-> JStr(<<"A", "c", "t", "i", "o", "n", " ", "v", "e", "r", "b", "s", " ", "i", "n", "d", "i", "c", "a", "t", "e", " ", "v", "i", "e", "w", "i", "n", "g", "/", "a", "n", "a", "l", "y", "z", "i", "n", "g", " ", "d", "a", "t", "a">>)]
  ELSE [target_agent |-> "management", confidence |-> JStr(<<"m", "e", "d", "i", "u", "m">>),
        reasoning |-> JStr(<<"A", "c", "t", "i", "o", "n", " ", "v", "e", "r", "b", "s", " ", "i", "n", "d", "i", "c", "a", "t", "e", " ", "c", "r", "e", "a", "t", "i", "n", "g", "/", "m", "o", "d", "i", "f", "y", "i", "n", "g", " ", "d", "a", "t", "a">>)]

\* the comparison of the verb counts, with its default
VerbChoice(analysis_action_score, management_action_score) ==
  IF analysis_action_score > management_action_score
  THEN [target_agent |-> "analysis", confidence |-> JStr(<<"m", "e", "d", "i", "u", "m">>),
        reasoning |-> JStr(<<"A", "c", "t", "i", "o", "n", " ", "v", "e", "r", "b", "s", " ", "i", "n", "d", "i", "c", "a", "t", "e", " ", "v", "i", "e", "w", "i", "n", "g", "/", "a", "n", "a", "l", "y", "z", "i", "n", "g", " ", "d", "a", "t", "a">>)]
  ELSE IF management_action_score > analysis_action_score
  THEN [target_agent |-> "management", confidence |-> JStr(<<"m", "e", "d", "i", "u", "m">>),
        reasoning |-> JStr(<<"A", "c", "t", "i", "o", "n", " ", "v", "e", "r", "b", "s", " ", "i", "n", "d", "i", "c", "a", "t", "e", " ", "c", "r", "e", "a", "t", "i", "n", "g", "/", "m", "o", "d", "i", "f", "y", "i", "n", "g", " ", "d", "a", "t", "a">>)]
  ELSE [target_agent |-> "analysis", confidence |-> JStr(<<"l", "o", "w">>),
        reasoning |-> JStr(<<"A", "m", "b", "i", "g", "u", "o", "u", "s", " ", "r", "e", "q", "u", "e", "s", "t", ",", " ", "d", "e", "f", "a", "u", "l", "t", "i", "n", "g", " ", "t", "o", " ", "a", "n", "a", "l", "y", "s", "i", "s", " ", "a", "g", "e", "n", "t", " ", "f", "o", "r", " ", "d", "a", "t", "a", " ", "v", "i", "e", "w", "i", "n", "g">>)]

\* _fallback_intent_analysis
FallbackIntentAnalysis(query) ==
  LET query_lower == Lower(query)
      strong_analysis_score == CountIn(strong_analysis_keywords, query_lower)
      strong_management_score == CountIn(strong_management_keywords, query_lower)
      chosen ==
        IF strong_analysis_score > 0 /\ strong_management_score = 0
        THEN [target_agent |-> "analysis", confidence |-> JStr(<<"h", "i", "g", "h">>),
              reasoning |-> JStr(<<"S", "t", "r", "o", "n", "g", " ", "a", "n", "a", "l", "y", "s", "i", "s", " ", "k", "e", "y", "w", "o", "r", "d", "s", " ", "d", "e", "t", "e", "c", "t", "e", "d", ":", " ", "v", "i", "e", "w", "i", "n", "g", "/", "a", "n", "a", "l", "y", "z", "i", "n", "g", " ", "d", "a", "t", "a", " ", "r", "e", "q", "u", "e", "s", "t">>)]
        ELSE IF strong_management_score > 0 /\ strong_analysis_score = 0
        THEN [target_agent |-> "management", confidence |-> JStr(<<"h", "i", "g", "h">>),
              reasoning |-> JStr(<<"S", "t", "r", "o", "n", "g", " ", "m", "a", "n", "a", "g", "e", "m", "e", "n", "t", " ", "k", "e", "y", "w", "o", "r", "d", "s", " ", "d", "e", "t", "e", "c", "t", "e", "d", ":", " ", "c", "r", "e", "a", "t", "i", "n", "g", "/", "m", "o", "d", "i", "f", "y", "i", "n", "g", " ", "d", "a", "t", "a", " ", "r", "e", "q", "u", "e", "s", "t">>)]
        ELSE VerbChoice(CountIn(action_verbs_analysis, query_lower),
                        CountIn(action_verbs_management, query_lower))
  IN [success |-> TRUE, path |-> "fallback",
      target_agent |-> chosen.target_agent, confidence |-> chosen.confidence,
      reasoning |-> chosen.reasoning]

\* _analyze_user_intent without the check of the target: any target_agent
\* the reply gives is taken
AnalyzeUserIntent_AnyTarget(query, reply) ==
  IF /\ reply.kind = "json"
     /\ "target_agent" \in DOMAIN reply.data
  THEN [success |-> TRUE, path |-> "model",
        target_agent |-> IF reply.data["target_agent"] = JStr(<<"a", "n", "a", "l", "y", "s", "i", "s">>) THEN "analysis"
                         ELSE IF reply.data["target_agent"] = JStr(<<"m", "a", "n", "a", "g", "e", "m", "e", "n", "t">>)
                         THEN "management" ELSE "none",
        confidence |-> GetOr(reply.data, "confidence", JStr(<<"m", "e", "d", "i", "u", "m">>)),
        reasoning |-> GetOr(reply.data, "reasoning", JStr(<<"N", "o", " ", "r", "e", "a", "s", "o", "n", "i", "n", "g", " ", "p", "r", "o", "v", "i", "d", "e", "d">>))]
  ELSE FallbackIntentAnalysis(query)

\* _analyze_user_intent: reply.kind is "raise" (the model call raises),
\* "text" (no {...} in the content), "invalid" (the braces do not hold JSON)
\* or "json" (reply.data is the object parsed)
AnalyzeUserIntent(query, reply) ==
  IF /\ reply.kind = "json"
     /\ "target_agent" \in DOMAIN reply.data
     /\ reply.data["target_agent"] \in {JStr(<<"a", "n", "a", "l", "y", "s", "i", "s">>), JStr(<<"m", "a", "n", "a", "g", "e", "m", "e", "n", "t">>)}
  THEN [success |-> TRUE, path |-> "model",
        target_agent |-> IF reply.data["target_agent"] = JStr(<<"a", "n", "a", "l", "y", "s", "i", "s">>)
                         THEN "analysis" ELSE "management",
        confidence |-> GetOr(reply.data, "confidence", JStr(<<"m", "e", "d", "i", "u", "m">>)),
        reasoning |-> GetOr(reply.data, "reasoning", JStr(<<"N", "o", " ", "r", "e", "a", "s", "o", "n", "i", "n", "g", " ", "p", "r", "o", "v", "i", "d", "e", "d">>))]
  ELSE FallbackIntentAnalysis(query)

\* the replies of the routing model
RouterReplies ==
  {[kind |-> k, data |-> EmptyDict] : k \in {"raise", "text", "invalid"}} \cup
  {[kind |-> "json", data |-> d] :
     d \in {EmptyDict,
            [target_agent |-> JStr(<<"a", "n", "a", "l", "y", "s", "i", "s">>)],
            [target_agent |-> JStr(<<"m", "a", "n", "a", "g", "e", "m", "e", "n", "t">>), confidence |-> JStr(<<"h", "i", "g", "h">>),
             reasoning |-> JStr(<<"U", "s", "e", "r", " ", "w", "a", "n", "t", "s", " ", "t", "o", " ", "c", "h", "a", "n", "g", "e", " ", "d", "a", "t", "a">>)],
            [target_agent |-> JStr(<<"p", "l", "a", "n", "n", "i", "n", "g">>)],
            [target_agent |-> JNum(1), confidence |-> JStr(<<"h", "i", "g", "h">>)]}}

(***************************************************************************)
(* The management handlers, agents/management.py.  A handler gives its     *)
(* result and the provider calls it issued, in order.                      *)
(***************************************************************************)
\* the check mark and the cross that open a message, written + and x
CheckMark == <<"+">>

CrossMark == <<"x">>

Failure(content, error) == [success |-> FALSE, content |-> content, error |-> error]

Success(content) == [success |-> TRUE, content |-> content, error |-> NoText]

NoCalls(result) == [result |-> result, calls |-> <<>>]

\* one call of a provider method: a work item id and the changes sent where
\* the method takes them
Call(op, id, updates) == [op |-> op, id |-> id, updates |-> updates]

\* for tool in project_context['tools']: if tool['type'] == 'jira': .. break
JiraTool(tools) ==
  LET hits == {i \in 1..Len(tools) : tools[i].type = "jira"}
  IN IF hits = {} THEN <<>>
     ELSE <<tools[CHOOSE i \in hits : \A j \in hits : i <= j]>>

\* JiraProvider(server_url=jira_tool['base_url'], ..): the key whose lookup
\* raises KeyError, as str(e) shows it
MissingKey(jira_tool) ==
  IF "base_url" \notin DOMAIN jira_tool THEN <<<<"'">> \o <<"b", "a", "s", "e", "_", "u", "r", "l">> \o <<"'">>>>
  ELSE IF "configuration" \notin DOMAIN jira_tool THEN <<<<"'">> \o <<"c", "o", "n", "f", "i", "g", "u", "r", "a", "t", "i", "o", "n">> \o <<"'">>>>
  ELSE IF "api_token" \notin DOMAIN jira_tool THEN <<<<"'">> \o <<"a", "p", "i", "_", "t", "o", "k", "e", "n">> \o <<"'">>>>
  ELSE <<>>

\* status_mapping.get(v, v) and priority_mapping.get(v, v) of _update_work_item
StatusMapping(v) ==
  CASE v = <<"T", "o", "d", "o">> -> <<"T", "o", " ", "D", "o">>
    [] v \in {<<"I", "n", "p", "r", "o", "g", "r", "e", "s", "s">>, <<"I", "n", " ", "P", "r", "o", "g", "r", "e", "s", "s">>, <<"I", "n", "-", "P", "r", "o", "g", "r", "e", "s", "s">>} -> <<"I", "n", " ", "P", "r", "o", "g", "r", "e", "s", "s">>
    [] v \in {<<"D", "o", "n", "e">>, <<"C", "o", "m", "p", "l", "e", "t", "e">>, <<"C", "o", "m", "p", "l", "e", "t", "e", "d">>, <<"C", "l", "o", "s", "e", "d">>} -> <<"D", "o", "n", "e">>
    [] OTHER -> v

PriorityMapping(v) == IF v = <<"C", "r", "i", "t", "i", "c", "a", "l">> THEN <<"H", "i", "g", "h", "e", "s", "t">> ELSE v

\* the updates of _update_work_item, in the order the dict takes them
ExtractUpdates(query) ==
  LET query_lower == Lower(query)
      status == FirstFind(status_patterns, query_lower, FALSE)
      priority == FirstFind(priority_patterns, query_lower, FALSE)
      title == FirstFind(title_patterns, query, FALSE)
      description == FirstFind(desc_patterns, query, FALSE)
  IN (IF status.found
      THEN <<[k |-> "status", v |-> StatusMapping(Title(Strip(status.group)))]>> ELSE <<>>)
     \o (IF priority.found
         THEN <<[k |-> "priority", v |-> PriorityMapping(Title(Strip(priority.group)))]>>
         ELSE <<>>)
     \o (IF title.found THEN <<[k |-> "title", v |-> Strip(title.group)]>> ELSE <<>>)
     \o (IF description.found
         THEN <<[k |-> "description", v |-> Strip(description.group)]>> ELSE <<>>)

\* ", ".join([f"{k}: {v}" for k, v in updates.items()])
UpdateSummary(updates) ==
  LET name(k) == CASE k = "status" -> <<"s", "t", "a", "t", "u", "s">> [] k = "priority" -> <<"p", "r", "i", "o", "r", "i", "t", "y">>
                   [] k = "title" -> <<"t", "i", "t", "l", "e">> [] k = "description" -> <<"d", "e", "s", "c", "r", "i", "p", "t", "i", "o", "n">>
  IN JoinWith([i \in 1..Len(updates) |-> name(updates[i].k) \o <<":", " ">> \o updates[i].v],
              <<",", " ">>)

InvalidFormat(work_item_id) ==
  Failure(<<"I", "n", "v", "a", "l", "i", "d", " ", "w", "o", "r", "k", " ", "i", "t", "e", "m", " ", "I", "D", " ", "f", "o", "r", "m", "a", "t", ":", " ", "'">> \o work_item_id \o <<"'", ".", " ", "P", "l", "e", "a", "s", "e", " ", "u", "s", "e", " ", "J", "I", "R", "A", " ", "f", "o", "r", "m", "a", "t", " ", "l", "i", "k", "e", " ", "'", "A", "G", "-", "1", "2", "3", "'", ".">>, <<"I", "n", "v", "a", "l", "i", "d", " ", "w", "o", "r", "k", " ", "i", "t", "e", "m", " ", "I", "D", " ", "f", "o", "r", "m", "a", "t">>)

\* _update_work_item; response is what provider.update_work_item returns (it
\* catches every exception itself)
UpdateWorkItem(query, tools, response) ==
  LET id == FirstFind(update_id_patterns, query, TRUE)
      work_item_id == id.group
      updates == ExtractUpdates(query)
      jira_tool == JiraTool(tools)
      call == <<Call("update_work_item", work_item_id, updates)>>
      raised(e) == Failure(<<"A", "n", " ", "e", "r", "r", "o", "r", " ", "o", "c", "c", "u", "r", "r", "e", "d", " ", "w", "h", "i", "l", "e", " ", "u", "p", "d", "a", "t", "i", "n", "g", " ", "t", "h", "e", " ", "w", "o", "r", "k", " ", "i", "t", "e", "m", ":", " ">> \o e, <<"E", "x", "c", "e", "p", "t", "i", "o", "n", " ", "o", "c", "c", "u", "r", "r", "e", "d", " ", "d", "u", "r", "i", "n", "g", " ", "u", "p", "d", "a", "t", "e">>)
  IN IF ~id.found THEN NoCalls(Failure(<<"N", "o", " ", "v", "a", "l", "i", "d", " ", "w", "o", "r", "k", " ", "i", "t", "e", "m", " ", "I", "D", " ", "f", "o", "u", "n", "d", ".", " ", "P", "l", "e", "a", "s", "e", " ", "s", "p", "e", "c", "i", "f", "y", " ", "t", "h", "e", " ", "w", "o", "r", "k", " ", "i", "t", "e", "m", " ", "I", "D", " ", "i", "n", " ", "J", "I", "R", "A", " ", "f", "o", "r", "m", "a", "t", " ", "(", "e", ".", "g", ".", ",", " ", "'", "u", "p", "d", "a", "t", "e", " ", "A", "G", "-", "1", "2", "3", " ", "s", "t", "a", "t", "u", "s", " ", "t", "o", " ", "D", "o", "n", "e", "'", ")", ".">>, <<"W", "o", "r", "k", " ", "i", "t", "e", "m", " ", "I", "D", " ", "i", "s", " ", "r", "e", "q", "u", "i", "r", "e", "d">>))
     ELSE IF ~ReMatch(id_format, work_item_id, TRUE)
     THEN NoCalls(InvalidFormat(work_item_id))
     ELSE IF updates = <<>>
     THEN NoCalls(Failure(<<"N", "o", " ", "v", "a", "l", "i", "d", " ", "u", "p", "d", "a", "t", "e", "s", " ", "f", "o", "u", "n", "d", " ", "f", "o", "r", " ", "w", "o", "r", "k", " ", "i", "t", "e", "m", " ">> \o work_item_id \o <<".", " ", "Y", "o", "u", " ", "c", "a", "n", " ", "u", "p", "d", "a", "t", "e", ":", " ", "s", "t", "a", "t", "u", "s", ",", " ", "p", "r", "i", "o", "r", "i", "t", "y", ",", " ", "t", "i", "t", "l", "e", ",", " ", "d", "e", "s", "c", "r", "i", "p", "t", "i", "o", "n", ",", " ", "o", "r", " ", "a", "s", "s", "i", "g", "n", "e", "e", ".", "\n", "\n", "E", "x", "a", "m", "p", "l", "e", "s", ":", "\n", "-", " ", "'", "u", "p", "d", "a", "t", "e", " ">> \o work_item_id \o <<" ", "s", "t", "a", "t", "u", "s", " ", "t", "o", " ", "D", "o", "n", "e", "'", "\n", "-", " ", "'", "c", "h", "a", "n", "g", "e", " ">>
                            \o work_item_id \o <<" ", "p", "r", "i", "o", "r", "i", "t", "y", " ", "t", "o", " ", "H", "i", "g", "h", "'", "\n", "-", " ", "'", "s", "e", "t", " ">> \o work_item_id \o <<" ", "t", "i", "t", "l", "e", " ", "t", "o", " ", "\"", "N", "e", "w", " ", "T", "i", "t", "l", "e", "\"", "'">>,
                          <<"N", "o", " ", "u", "p", "d", "a", "t", "e", "s", " ", "s", "p", "e", "c", "i", "f", "i", "e", "d">>))
     ELSE IF jira_tool = <<>> THEN NoCalls(Failure(<<"J", "I", "R", "A", " ", "i", "n", "t", "e", "g", "r", "a", "t", "i", "o", "n", " ", "n", "o", "t", " ", "f", "o", "u", "n", "d", ".", " ", "P", "l", "e", "a", "s", "e", " ", "c", "o", "n", "f", "i", "g", "u", "r", "e", " ", "J", "I", "R", "A", " ", "f", "i", "r", "s", "t", ".">>, <<"J", "I", "R", "A", " ", "n", "o", "t", " ", "c", "o", "n", "f", "i", "g", "u", "r", "e", "d">>))
     ELSE IF MissingKey(jira_tool[1]) # <<>>
     THEN NoCalls(raised(MissingKey(jira_tool[1])[1]))
     ELSE [calls |-> call,
           result |->
             CASE response.kind = "ok" ->
                    Success(CheckMark \o <<" ", "W", "o", "r", "k", " ", "i", "t", "e", "m", " ">> \o work_item_id \o <<" ", "h", "a", "s", " ", "b", "e", "e", "n", " ", "s", "u", "c", "c", "e", "s", "s", "f", "u", "l", "l", "y", " ", "u", "p", "d", "a", "t", "e", "d", ".", "\n", "\n", "C", "h", "a", "n", "g", "e", "s", " ", "m", "a", "d", "e", ":", " ">>
                              \o UpdateSummary(updates))
               [] Contains(response.error, <<"4", "0", "4">>) ->
                    Failure(CrossMark \o <<" ", "W", "o", "r", "k", " ", "i", "t", "e", "m", " ">> \o work_item_id \o <<" ", "w", "a", "s", " ", "n", "o", "t", " ", "f", "o", "u", "n", "d", " ", "i", "n", " ", "J", "I", "R", "A", ".", " ", "P", "l", "e", "a", "s", "e", " ", "c", "h", "e", "c", "k", " ", "t", "h", "e", " ", "I", "D", " ", "a", "n", "d", " ", "t", "r", "y", " ", "a", "g", "a", "i", "n", ".">>, <<"W", "o", "r", "k", " ", "i", "t", "e", "m", " ", "n", "o", "t", " ", "f", "o", "u", "n", "d">>)
               [] Contains(response.error, <<"4", "0", "3">>) ->
                    Failure(CrossMark \o <<" ", "Y", "o", "u", " ", "d", "o", "n", "'", "t", " ", "h", "a", "v", "e", " ", "p", "e", "r", "m", "i", "s", "s", "i", "o", "n", " ", "t", "o", " ">> \o <<"u", "p", "d", "a", "t", "e">> \o <<" ", "w", "o", "r", "k", " ", "i", "t", "e", "m", " ">> \o work_item_id
                              \o <<".", " ", "P", "l", "e", "a", "s", "e", " ", "c", "h", "e", "c", "k", " ", "y", "o", "u", "r", " ", "J", "I", "R", "A", " ", "p", "e", "r", "m", "i", "s", "s", "i", "o", "n", "s", ".">>, <<"P", "e", "r", "m", "i", "s", "s", "i", "o", "n", " ", "d", "e", "n", "i", "e", "d">>)
               [] OTHER ->
                    Failure(CrossMark \o <<" ", "F", "a", "i", "l", "e", "d", " ", "t", "o", " ">> \o <<"u", "p", "d", "a", "t", "e">> \o <<" ", "w", "o", "r", "k", " ", "i", "t", "e", "m", " ">> \o work_item_id
                              \o <<":", " ">> \o response.error, <<"F", "a", "i", "l", "e", "d", " ", "t", "o", " ", "u", "p", "d", "a", "t", "e", " ", "w", "o", "r", "k", " ", "i", "t", "e", "m">>)]

\* _delete_work_item: JiraProvider has no method delete_work_item, so the
\* call raises AttributeError before any request is sent
DeleteWorkItem(query, tools) ==
  LET id == FirstFind(delete_id_patterns, query, TRUE)
      work_item_id == id.group
      jira_tool == JiraTool(tools)
      raised(e) == Failure(<<"A", "n", " ", "e", "r", "r", "o", "r", " ", "o", "c", "c", "u", "r", "r", "e", "d", " ", "w", "h", "i", "l", "e", " ", "d", "e", "l", "e", "t", "i", "n", "g", " ", "t", "h", "e", " ", "w", "o", "r", "k", " ", "i", "t", "e", "m", ":", " ">> \o e, <<"E", "x", "c", "e", "p", "t", "i", "o", "n", " ", "o", "c", "c", "u", "r", "r", "e", "d", " ", "d", "u", "r", "i", "n", "g", " ", "d", "e", "l", "e", "t", "i", "o", "n">>)
  IN IF ~id.found THEN NoCalls(Failure(<<"N", "o", " ", "v", "a", "l", "i", "d", " ", "w", "o", "r", "k", " ", "i", "t", "e", "m", " ", "I", "D", " ", "f", "o", "u", "n", "d", " ", "i", "n", " ", "y", "o", "u", "r", " ", "r", "e", "q", "u", "e", "s", "t", ".", " ", "P", "l", "e", "a", "s", "e", " ", "s", "p", "e", "c", "i", "f", "y", " ", "t", "h", "e", " ", "w", "o", "r", "k", " ", "i", "t", "e", "m", " ", "I", "D", " ", "i", "n", " ", "J", "I", "R", "A", " ", "f", "o", "r", "m", "a", "t", " ", "(", "e", ".", "g", ".", ",", " ", "'", "d", "e", "l", "e", "t", "e", " ", "A", "G", "-", "1", "2", "3", "'", " ", "o", "r", " ", "'", "r", "e", "m", "o", "v", "e", " ", "A", "G", "-", "4", "5", "6", "'", ")", ".">>, <<"W", "o", "r", "k", " ", "i", "t", "e", "m", " ", "I", "D", " ", "i", "s", " ", "r", "e", "q", "u", "i", "r", "e", "d">>))
     ELSE IF ~ReMatch(id_format, work_item_id, TRUE)
     THEN NoCalls(InvalidFormat(work_item_id))
     ELSE IF jira_tool = <<>> THEN NoCalls(Failure(<<"J", "I", "R", "A", " ", "i", "n", "t", "e", "g", "r", "a", "t", "i", "o", "n", " ", "n", "o", "t", " ", "f", "o", "u", "n", "d", ".", " ", "P", "l", "e", "a", "s", "e", " ", "c", "o", "n", "f", "i", "g", "u", "r", "e", " ", "J", "I", "R", "A", " ", "f", "i", "r", "s", "t", ".">>, <<"J", "I", "R", "A", " ", "n", "o", "t", " ", "c", "o", "n", "f", "i", "g", "u", "r", "e", "d">>))
     ELSE IF MissingKey(jira_tool[1]) # <<>>
     THEN NoCalls(raised(MissingKey(jira_tool[1])[1]))
     ELSE NoCalls(raised(<<"'", "J", "i", "r", "a", "P", "r", "o", "v", "i", "d", "e", "r", "'", " ", "o", "b", "j", "e", "c", "t", " ", "h", "a", "s", " ", "n", "o", " ", "a", "t", "t", "r", "i", "b", "u", "t", "e", " ", "'", "d", "e", "l", "e", "t", "e", "_", "w", "o", "r", "k", "_", "i", "t", "e", "m", "'">>))

\* _move_items_status
MoveItemsStatus == NoCalls(Failure(<<"S", "t", "a", "t", "u", "s", " ", "t", "r", "a", "n", "s", "i", "t", "i", "o", "n", "s", " ", "n", "o", "t", " ", "y", "e", "t", " ", "i", "m", "p", "l", "e", "m", "e", "n", "t", "e", "d", ".">>, <<"F", "e", "a", "t", "u", "r", "e", " ", "n", "o", "t", " ", "i", "m", "p", "l", "e", "m", "e", "n", "t", "e", "d">>))

\* str(int(s)) for a text of digits
IntText(s) ==
  LET nonzero == {i \in 1..Len(s) : s[i] # "0"}
  IN IF nonzero = {} THEN <<"0">>
     ELSE Slice(s, CHOOSE i \in nonzero : \A j \in nonzero : i <= j, Len(s))

IsDigit(s) == s # <<>> /\ \A i \in 1..Len(s) : s[i] \in DigitChars

\* the sprint _assign_work_item_to_sprint picks: by number, a name that
\* holds "sprint <number>"; else a name that holds the text given
TargetSprint(sprint_info, sprints) ==
  LET wanted == IF IsDigit(sprint_info) THEN <<"s", "p", "r", "i", "n", "t", " ">> \o IntText(sprint_info)
                ELSE Lower(sprint_info)
      hits == {i \in 1..Len(sprints) : Contains(Lower(sprints[i].name), wanted)}
  IN IF hits = {} THEN <<>>
     ELSE <<sprints[CHOOSE i \in hits : \A j \in hits : i <= j]>>

\* _add_work_item_to_sprint_in_jira, from the outcome of the POST: it
\* raises, or answers with a status code and a body
AddWorkItemToSprintInJira(work_item_id, sprint_id, post) ==
  CASE post.kind = "raise" -> [success |-> FALSE, error |-> post.error]
    [] post.status = <<"2", "0", "4">> -> [success |-> TRUE, error |-> NoText]
    [] post.status = <<"4", "0", "4">> ->
         [success |-> FALSE,
          error |-> <<"S", "p", "r", "i", "n", "t", " ">> \o sprint_id \o <<" ", "o", "r", " ", "w", "o", "r", "k", " ", "i", "t", "e", "m", " ">> \o work_item_id \o <<" ", "n", "o", "t", " ", "f", "o", "u", "n", "d">>]
    [] post.status = <<"4", "0", "3">> -> [success |-> FALSE, error |-> <<"P", "e", "r", "m", "i", "s", "s", "i", "o", "n", " ", "d", "e", "n", "i", "e", "d", ".", " ", "Y", "o", "u", " ", "m", "a", "y", " ", "n", "o", "t", " ", "h", "a", "v", "e", " ", "p", "e", "r", "m", "i", "s", "s", "i", "o", "n", " ", "t", "o", " ", "m", "o", "d", "i", "f", "y", " ", "t", "h", "i", "s", " ", "s", "p", "r", "i", "n", "t", ".">>]
    [] OTHER ->
         [success |-> FALSE,
          error |-> <<"F", "a", "i", "l", "e", "d", " ", "t", "o", " ", "a", "d", "d", " ", "w", "o", "r", "k", " ", "i", "t", "e", "m", " ", "t", "o", " ", "s", "p", "r", "i", "n", "t", ":", " ">> \o post.status
                      \o (IF post.text # <<>> THEN <<" ", "-", " ">> \o post.text ELSE <<>>)]

\* _assign_work_item_to_sprint; fetched is what provider.get_sprints does,
\* post what the request that adds the issue to the sprint does
AssignWorkItemToSprint(id, sprint_info, tools, fetched, post) ==
  LET work_item_id == id.group
      jira_tool == JiraTool(tools)
      raised(e) == Failure(<<"A", "n", " ", "e", "r", "r", "o", "r", " ", "o", "c", "c", "u", "r", "r", "e", "d", " ", "w", "h", "i", "l", "e", " ", "a", "s", "s", "i", "g", "n", "i", "n", "g", " ", "t", "h", "e", " ", "w", "o", "r", "k", " ", "i", "t", "e", "m", " ", "t", "o", " ", "s", "p", "r", "i", "n", "t", ":", " ">> \o e, <<"E", "x", "c", "e", "p", "t", "i", "o", "n", " ", "o", "c", "c", "u", "r", "r", "e", "d", " ", "d", "u", "r", "i", "n", "g", " ", "s", "p", "r", "i", "n", "t", " ", "a", "s", "s", "i", "g", "n", "m", "e", "n", "t">>)
      get == <<Call("get_sprints", NoText, <<>>)>>
      target_sprint == TargetSprint(sprint_info, fetched.items)
      shown == Take(fetched.items, 5)
      add == Call("add_to_sprint", work_item_id,
                  <<[k |-> "sprint", v |-> target_sprint[1].id]>>)
      response == AddWorkItemToSprintInJira(work_item_id, target_sprint[1].id, post)
  IN IF ~id.found THEN NoCalls(Failure(<<"N", "o", " ", "v", "a", "l", "i", "d", " ", "w", "o", "r", "k", " ", "i", "t", "e", "m", " ", "I", "D", " ", "f", "o", "u", "n", "d", ".", " ", "P", "l", "e", "a", "s", "e", " ", "s", "p", "e", "c", "i", "f", "y", " ", "t", "h", "e", " ", "w", "o", "r", "k", " ", "i", "t", "e", "m", " ", "I", "D", " ", "i", "n", " ", "J", "I", "R", "A", " ", "f", "o", "r", "m", "a", "t", ".">>, <<"W", "o", "r", "k", " ", "i", "t", "e", "m", " ", "I", "D", " ", "i", "s", " ", "r", "e", "q", "u", "i", "r", "e", "d">>))
     ELSE IF ~ReMatch(id_format, work_item_id, TRUE)
     THEN NoCalls(InvalidFormat(work_item_id))
     ELSE IF jira_tool = <<>> THEN NoCalls(Failure(<<"J", "I", "R", "A", " ", "i", "n", "t", "e", "g", "r", "a", "t", "i", "o", "n", " ", "n", "o", "t", " ", "f", "o", "u", "n", "d", ".", " ", "P", "l", "e", "a", "s", "e", " ", "c", "o", "n", "f", "i", "g", "u", "r", "e", " ", "J", "I", "R", "A", " ", "f", "i", "r", "s", "t", ".">>, <<"J", "I", "R", "A", " ", "n", "o", "t", " ", "c", "o", "n", "f", "i", "g", "u", "r", "e", "d">>))
     ELSE IF MissingKey(jira_tool[1]) # <<>>
     THEN NoCalls(raised(MissingKey(jira_tool[1])[1]))
     ELSE IF fetched.kind = "raise" THEN [calls |-> get, result |-> raised(fetched.error)]
     ELSE IF fetched.kind = "fail"
     THEN [calls |-> get, result |-> Failure(<<"F", "a", "i", "l", "e", "d", " ", "t", "o", " ", "g", "e", "t", " ", "s", "p", "r", "i", "n", "t", "s", " ", "f", "o", "r", " ", "p", "r", "o", "j", "e", "c", "t", ":", " ">> \o fetched.error, <<"C", "o", "u", "l", "d", " ", "n", "o", "t", " ", "r", "e", "t", "r", "i", "e", "v", "e", " ", "s", "p", "r", "i", "n", "t", "s">>)]
     ELSE IF target_sprint = <<>>
     THEN [calls |-> get,
           result |->
             Failure(CrossMark \o <<" ", "S", "p", "r", "i", "n", "t", " ", "'">> \o sprint_info \o <<"'", " ", "n", "o", "t", " ", "f", "o", "u", "n", "d", ".", " ", "A", "v", "a", "i", "l", "a", "b", "l", "e", " ", "s", "p", "r", "i", "n", "t", "s", ":", " ">>
                       \o JoinWith([i \in 1..Len(shown) |->
                                      <<"'">> \o shown[i].name \o <<"'", " ", "(", "I", "D", ":", " ">> \o shown[i].id
                                        \o <<")">>], <<",", " ">>),
                     <<"S", "p", "r", "i", "n", "t", " ", "n", "o", "t", " ", "f", "o", "u", "n", "d">>)]
     ELSE [calls |-> Append(get, add),
           result |->
             IF response.success
             THEN Success(CheckMark \o <<" ", "W", "o", "r", "k", " ", "i", "t", "e", "m", " ">> \o work_item_id \o <<" ", "h", "a", "s", " ", "b", "e", "e", "n", " ", "s", "u", "c", "c", "e", "s", "s", "f", "u", "l", "l", "y", " ", "a", "s", "s", "i", "g", "n", "e", "d", " ", "t", "o", " ", "s", "p", "r", "i", "n", "t", " ", "'">>
                            \o target_sprint[1].name \o <<"'", ".">>)
             ELSE Failure(CrossMark \o <<" ", "F", "a", "i", "l", "e", "d", " ", "t", "o", " ", "a", "s", "s", "i", "g", "n", " ", "w", "o", "r", "k", " ", "i", "t", "e", "m", " ">> \o work_item_id \o <<" ", "t", "o", " ", "s", "p", "r", "i", "n", "t", " ", "'">>
                            \o target_sprint[1].name \o <<"'", ":", " ">> \o response.error,
                          response.error)]

\* the assignee _assign_work takes from the request: the name matched,
\* without the words of cleanup_words where that leaves more than one
\* character
ExtractAssignee(query) ==
  LET m == FirstFind(assignee_patterns, query, TRUE)
      assignee_name == Strip(m.group)
      cleaned_name == Strip(ReSubEmpty(cleanup_words, assignee_name, TRUE))
  IN IF ~m.found THEN <<>>
     ELSE IF Len(cleaned_name) > 1 THEN cleaned_name
     ELSE assignee_name

\* _assign_work; response is what provider.update_work_item returns
AssignWork(query, tools, response, fetched, post) ==
  LET id == FirstFind(assign_id_patterns, query, TRUE)
      work_item_id == id.group
      sprint == FirstFind(sprint_patterns, query, TRUE)
      sprint_info == Strip(sprint.group)
      assignee_name == ExtractAssignee(query)
      jira_tool == JiraTool(tools)
      raised(e) == Failure(<<"A", "n", " ", "e", "r", "r", "o", "r", " ", "o", "c", "c", "u", "r", "r", "e", "d", " ", "w", "h", "i", "l", "e", " ", "a", "s", "s", "i", "g", "n", "i", "n", "g", " ", "t", "h", "e", " ", "w", "o", "r", "k", " ", "i", "t", "e", "m", ":", " ">> \o e, <<"E", "x", "c", "e", "p", "t", "i", "o", "n", " ", "o", "c", "c", "u", "r", "r", "e", "d", " ", "d", "u", "r", "i", "n", "g", " ", "a", "s", "s", "i", "g", "n", "m", "e", "n", "t">>)
      call == <<Call("update_work_item", work_item_id,
                     <<[k |-> "assignee", v |-> assignee_name]>>)>>
  IN IF sprint.found /\ sprint_info # <<>>
     THEN AssignWorkItemToSprint(id, sprint_info, tools, fetched, post)
     ELSE IF ~id.found THEN NoCalls(Failure(<<"N", "o", " ", "v", "a", "l", "i", "d", " ", "w", "o", "r", "k", " ", "i", "t", "e", "m", " ", "I", "D", " ", "f", "o", "u", "n", "d", ".", " ", "P", "l", "e", "a", "s", "e", " ", "s", "p", "e", "c", "i", "f", "y", " ", "t", "h", "e", " ", "w", "o", "r", "k", " ", "i", "t", "e", "m", " ", "I", "D", " ", "i", "n", " ", "J", "I", "R", "A", " ", "f", "o", "r", "m", "a", "t", " ", "(", "e", ".", "g", ".", ",", " ", "'", "a", "s", "s", "i", "g", "n", " ", "A", "G", "-", "1", "2", "3", " ", "t", "o", " ", "J", "o", "h", "n", " ", "D", "o", "e", "'", " ", "o", "r", " ", "'", "a", "s", "s", "i", "g", "n", " ", "A", "G", "-", "1", "2", "3", " ", "t", "o", " ", "s", "p", "r", "i", "n", "t", " ", "1", "'", ")", ".">>, <<"W", "o", "r", "k", " ", "i", "t", "e", "m", " ", "I", "D", " ", "i", "s", " ", "r", "e", "q", "u", "i", "r", "e", "d">>))
     ELSE IF assignee_name = <<>> THEN NoCalls(Failure(<<"N", "o", " ", "a", "s", "s", "i", "g", "n", "e", "e", " ", "n", "a", "m", "e", " ", "f", "o", "u", "n", "d", ".", " ", "P", "l", "e", "a", "s", "e", " ", "s", "p", "e", "c", "i", "f", "y", " ", "w", "h", "o", " ", "t", "o", " ", "a", "s", "s", "i", "g", "n", " ", "t", "h", "e", " ", "w", "o", "r", "k", " ", "i", "t", "e", "m", " ", "t", "o", " ", "(", "e", ".", "g", ".", ",", " ", "'", "a", "s", "s", "i", "g", "n", " ", "A", "G", "-", "1", "2", "3", " ", "t", "o", " ", "J", "o", "h", "n", " ", "D", "o", "e", "'", ")", " ", "o", "r", " ", "w", "h", "i", "c", "h", " ", "s", "p", "r", "i", "n", "t", " ", "t", "o", " ", "a", "s", "s", "i", "g", "n", " ", "i", "t", " ", "t", "o", " ", "(", "e", ".", "g", ".", ",", " ", "'", "a", "s", "s", "i", "g", "n", " ", "A", "G", "-", "1", "2", "3", " ", "t", "o", " ", "s", "p", "r", "i", "n", "t", " ", "1", "'", ")", ".">>, <<"A", "s", "s", "i", "g", "n", "e", "e", " ", "n", "a", "m", "e", " ", "i", "s", " ", "r", "e", "q", "u", "i", "r", "e", "d">>))
     ELSE IF ~ReMatch(id_format, work_item_id, TRUE)
     THEN NoCalls(InvalidFormat(work_item_id))
     ELSE IF jira_tool = <<>> THEN NoCalls(Failure(<<"J", "I", "R", "A", " ", "i", "n", "t", "e", "g", "r", "a", "t", "i", "o", "n", " ", "n", "o", "t", " ", "f", "o", "u", "n", "d", ".", " ", "P", "l", "e", "a", "s", "e", " ", "c", "o", "n", "f", "i", "g", "u", "r", "e", " ", "J", "I", "R", "A", " ", "f", "i", "r", "s", "t", ".">>, <<"J", "I", "R", "A", " ", "n", "o", "t", " ", "c", "o", "n", "f", "i", "g", "u", "r", "e", "d">>))
     ELSE IF MissingKey(jira_tool[1]) # <<>>
     THEN NoCalls(raised(MissingKey(jira_tool[1])[1]))
     ELSE [calls |-> call,
           result |->
             CASE response.kind = "ok" ->
                    Success(CheckMark \o <<" ", "W", "o", "r", "k", " ", "i", "t", "e", "m", " ">> \o work_item_id \o <<" ", "h", "a", "s", " ", "b", "e", "e", "n", " ", "s", "u", "c", "c", "e", "s", "s", "f", "u", "l", "l", "y", " ", "a", "s", "s", "i", "g", "n", "e", "d", " ", "t", "o", " ">>
                              \o assignee_name \o <<".">>)
               [] Contains(response.error, <<"4", "0", "4">>) ->
                    Failure(CrossMark \o <<" ", "W", "o", "r", "k", " ", "i", "t", "e", "m", " ">> \o work_item_id \o <<" ", "w", "a", "s", " ", "n", "o", "t", " ", "f", "o", "u", "n", "d", " ", "i", "n", " ", "J", "I", "R", "A", ".", " ", "P", "l", "e", "a", "s", "e", " ", "c", "h", "e", "c", "k", " ", "t", "h", "e", " ", "I", "D", " ", "a", "n", "d", " ", "t", "r", "y", " ", "a", "g", "a", "i", "n", ".">>, <<"W", "o", "r", "k", " ", "i", "t", "e", "m", " ", "n", "o", "t", " ", "f", "o", "u", "n", "d">>)
               [] Contains(response.error, <<"4", "0", "3">>) ->
                    Failure(CrossMark \o <<" ", "Y", "o", "u", " ", "d", "o", "n", "'", "t", " ", "h", "a", "v", "e", " ", "p", "e", "r", "m", "i", "s", "s", "i", "o", "n", " ", "t", "o", " ">> \o <<"a", "s", "s", "i", "g", "n">> \o <<" ", "w", "o", "r", "k", " ", "i", "t", "e", "m", " ">> \o work_item_id
                              \o <<".", " ", "P", "l", "e", "a", "s", "e", " ", "c", "h", "e", "c", "k", " ", "y", "o", "u", "r", " ", "J", "I", "R", "A", " ", "p", "e", "r", "m", "i", "s", "s", "i", "o", "n", "s", ".">>, <<"P", "e", "r", "m", "i", "s", "s", "i", "o", "n", " ", "d", "e", "n", "i", "e", "d">>)
               [] Contains(Lower(response.error), <<"a", "s", "s", "i", "g", "n", "e", "e">>) ->
                    Failure(CrossMark \o <<" ", "C", "o", "u", "l", "d", " ", "n", "o", "t", " ", "a", "s", "s", "i", "g", "n", " ", "'">> \o assignee_name \o <<"'", " ", "t", "o", " ", "w", "o", "r", "k", " ", "i", "t", "e", "m", " ">>
                              \o work_item_id \o <<".", " ", "P", "l", "e", "a", "s", "e", " ", "c", "h", "e", "c", "k", " ", "t", "h", "a", "t", " ", "t", "h", "e", " ", "u", "s", "e", "r", " ", "e", "x", "i", "s", "t", "s", " ", "i", "n", " ", "J", "I", "R", "A", " ", "a", "n", "d", " ", "h", "a", "s", " ", "a", "c", "c", "e", "s", "s", " ", "t", "o", " ", "t", "h", "e", " ", "p", "r", "o", "j", "e", "c", "t", ".">>, <<"I", "n", "v", "a", "l", "i", "d", " ", "a", "s", "s", "i", "g", "n", "e", "e">>)
               [] OTHER ->
                    Failure(CrossMark \o <<" ", "F", "a", "i", "l", "e", "d", " ", "t", "o", " ">> \o <<"a", "s", "s", "i", "g", "n">> \o <<" ", "w", "o", "r", "k", " ", "i", "t", "e", "m", " ">> \o work_item_id
                              \o <<":", " ">> \o response.error, <<"F", "a", "i", "l", "e", "d", " ", "t", "o", " ", "a", "s", "s", "i", "g", "n", " ", "w", "o", "r", "k", " ", "i", "t", "e", "m">>)]

(***************************************************************************)
(* The duplicate detector, agents/management.py                            *)
(***************************************************************************)
\* the length of the longest run a[i..] = b[j..] inside a[..ahi-1], b[..bhi-1]
RunLen(a, b, i, j, ahi, bhi) ==
  LET n == IF ahi - i < bhi - j THEN ahi - i ELSE bhi - j
      runs == {k \in 0..n : \A m \in 0..(k - 1) : a[i + m] = b[j + m]}
  IN CHOOSE k \in runs : \A x \in runs : x <= k

\* the characters difflib.SequenceMatcher matches between a[alo..ahi-1] and
\* b[blo..bhi-1]: the longest common run, the one that starts first in a and
\* then first in b, and the same to its left and to its right
RECURSIVE MatchCount(_, _, _, _, _, _)

\* among the starts of runs of length k, the first in a and then in b
FirstOfLength(starts, lens, k) ==
  LET longest == {p \in starts : lens[p] = k}
      firstA == {p \in longest : \A q \in longest : p[1] <= q[1]}
  IN CHOOSE p \in firstA : \A q \in firstA : p[2] <= q[2]

\* the longest run and what is matched to its left and to its right
MatchAround(a, b, alo, ahi, blo, bhi, best, k) ==
  k + MatchCount(a, b, alo, best[1], blo, best[2])
    + MatchCount(a, b, best[1] + k, ahi, best[2] + k, bhi)

\* find_longest_match, for the lengths lens of the runs that start at starts
MatchLongest(a, b, alo, ahi, blo, bhi, starts, lens, k) ==
  MatchAround(a, b, alo, ahi, blo, bhi, FirstOfLength(starts, lens, k), k)

\* the greatest member of a set of numbers
MaxOf(S) == CHOOSE k \in S : \A x \in S : x <= k

MatchStarts(a, b, alo, ahi, blo, bhi, starts, lens) ==
  IF starts = {} THEN 0
  ELSE MatchLongest(a, b, alo, ahi, blo, bhi, starts, lens,
                    MaxOf({lens[p] : p \in starts}))

MatchRuns(a, b, alo, ahi, blo, bhi, starts) ==
  MatchStarts(a, b, alo, ahi, blo, bhi, starts,
              [p \in starts |-> RunLen(a, b, p[1], p[2], ahi, bhi)])

MatchCount(a, b, alo, ahi, blo, bhi) ==
  MatchRuns(a, b, alo, ahi, blo, bhi,
            {p \in (alo..(ahi - 1)) \X (blo..(bhi - 1)) : a[p[1]] = b[p[2]]})

\* SequenceMatcher(None, a, b).ratio() >= 0.9, the ratio being 2*M/T (1.0
\* for two empty texts)
Similar(a, b) ==
  LET T == Len(a) + Len(b)
  IN T = 0 \/ 20 * MatchCount(a, b, 1, Len(a) + 1, 1, Len(b) + 1) >= 9 * T

\* key=lambda x: x['created_date'] if x['created_date'] else datetime.min
DateKey(item) ==
  IF item.created_date = <<>> THEN [t |-> -1, aware |-> FALSE]
  ELSE item.created_date[1]

\* sorting compares a datetime that has an offset with one that has none:
\* TypeError
SortRaises(all_items) ==
  \E i, j \in 1..Len(all_items) : DateKey(all_items[i]).aware # DateKey(all_items[j]).aware

\* a group left in the order in which it was collected
SortByCreated_Unsorted(all_items) == all_items

\* all_items.sort(key=..): ascending by date, equal dates in their order
SortByCreated(all_items) ==
  LET n == Len(all_items)
      before(j, i) == \/ DateKey(all_items[j]).t < DateKey(all_items[i]).t
                      \/ DateKey(all_items[j]).t = DateKey(all_items[i]).t /\ j < i
      rank(i) == Cardinality({j \in 1..n : before(j, i)}) + 1
  IN [r \in 1..n |-> all_items[CHOOSE i \in 1..n : rank(i) = r]]

\* the inner loop of _identify_duplicates for the item at i: the items
\* similar to it that are not processed, each marked processed when taken
RECURSIVE SimilarFrom(_, _, _, _)
SimilarFrom(work_items, i, j, found) ==
  IF j > Len(work_items) THEN found
  ELSE IF /\ j # i
          /\ work_items[j].id \notin found.processed
          /\ Similar(Strip(Lower(work_items[i].title)), Strip(Lower(work_items[j].title)))
  THEN SimilarFrom(work_items, i, j + 1,
                   [similar |-> Append(found.similar, work_items[j]),
                    processed |-> found.processed \cup {work_items[j].id}])
  ELSE SimilarFrom(work_items, i, j + 1, found)

SimilarItems(work_items, i, processed) ==
  SimilarFrom(work_items, i, 1, [similar |-> <<>>, processed |-> processed])

\* the outer loop of _identify_duplicates from the item at i on
RECURSIVE IdentifyFrom(_, _, _)

\* the group of the item at i is appended, its first item kept, and the
\* kept item's id marked processed
IdentifyKept(work_items, i, st, processed, sorted) ==
  IdentifyFrom(work_items, i + 1,
    [duplicates |-> Append(st.duplicates,
                           [kept_item |-> sorted[1],
                            duplicates |-> Tail(sorted),
                            group_title |-> sorted[1].title]),
     processed |-> processed \cup {sorted[1].id},
     raised |-> FALSE])

\* all_items = [item] + similar_items, and its sort
IdentifyGroup(work_items, i, st, processed, all_items) ==
  IF SortRaises(all_items) THEN [st EXCEPT !.raised = TRUE, !.processed = processed]
  ELSE IdentifyKept(work_items, i, st, processed, SortByCreated(all_items))

\* if similar_items: ...
IdentifySimilar(work_items, i, st, inner) ==
  IF inner.similar = <<>> THEN IdentifyFrom(work_items, i + 1, st)
  ELSE IdentifyGroup(work_items, i, st, inner.processed, <<work_items[i]>> \o inner.similar)

IdentifyFrom(work_items, i, st) ==
  IF i > Len(work_items) \/ st.raised THEN st
  ELSE IF work_items[i].id \in st.processed THEN IdentifyFrom(work_items, i + 1, st)
  ELSE IdentifySimilar(work_items, i, st, SimilarItems(work_items, i, st.processed))

\* a detector that starts from the ids the run before it left
FreshProcessed_Kept(left) == left

\* processed_items = set(): every run starts with no id processed
FreshProcessed(left) == {}

\* _identify_duplicates(work_items), in a process whose last run left the
\* ids left: the groups, the ids processed at the end, whether it raised
IdentifyDuplicates(work_items, left) ==
  IdentifyFrom(work_items, 1,
               [duplicates |-> <<>>, processed |-> FreshProcessed(left), raised |-> FALSE])

(***************************************************************************)
(* Runs of the duplicate detector on the work items of one fetch           *)
(***************************************************************************)
MaxItems == 3

\* a creation time as JiraProvider.get_work_items parses it: a datetime with
\* an offset, or None for an issue without the field
Created(t) == <<[t |-> t, aware |-> TRUE]>>

Item(id, title, created_date) == [id |-> id, title |-> title, created_date |-> created_date]

FixLoginFirst == Item(<<"A", "G", "-", "1">>, <<"F", "i", "x", " ", "l", "o", "g", "i", "n", " ", "b", "u", "g">>, Created(1))

FixLoginSecond == Item(<<"A", "G", "-", "2">>, <<"F", "i", "x", " ", "L", "o", "g", "i", "n", " ", "B", "u", "g", " ">>, Created(2))

FetchedItems ==
  <<FixLoginFirst, FixLoginSecond,
    Item(<<"A", "G", "-", "3">>, <<"f", "i", "x", " ", "l", "o", "g", "i", "n", " ", "b", "u", "g", "s">>, Created(1)),
    Item(<<"A", "G", "-", "4">>, <<"A", "d", "d", " ", "s", "e", "a", "r", "c", "h">>, <<>>),
    Item(<<"A", "G", "-", "5">>, <<"a", "d", "d", " ", "s", "e", "a", "r", "c", "h">>, <<>>),
    Item(<<"A", "G", "-", "6">>, <<"f", "i", "x", " ", "l", "o", "g", "i", "n", " ", "b", "u", "g", "s", "!", "!">>, Created(3))>>

\* three issues of which the first and the third have titles whose ratio is
\* 0.9 when the third is compared with the first and 0.7 the other way round
SkewedList ==
  <<Item(<<"A", "G", "-", "7">>, <<"a", "a", "b", "a", "a", "a", "b", "a", "a", "a">>, Created(2)),
    Item(<<"A", "G", "-", "8">>, <<"A", "A", "B", "A", "A", "A", "B", "A", "A", "A">>, Created(1)),
    Item(<<"A", "G", "-", "9">>, <<"a", "a", "a", "a", "a", "b", "a", "a", "a", "b">>, Created(1))>>

\* the lists a fetch can return: distinct issues, in any order
FetchedLists ==
  {[k \in 1..Len(s) |-> FetchedItems[s[k]]] :
     s \in {q \in SeqsUpTo(1..Len(FetchedItems), MaxItems) :
              \A a, b \in 1..Len(q) : a # b => q[a] # q[b]}}
  \cup {SkewedList}

VARIABLES
  dupPc,         \* "idle", "fetched", "ran", "reran"
  dupItems,      \* the work items fetched
  dupFirst,      \* what the first run on them gave
  dupSecond,     \* what the second run on them gave
  dupProcessed   \* the ids the last run had processed when it ended

dupVars == <<dupPc, dupItems, dupFirst, dupSecond, dupProcessed>>

NoRun == [duplicates |-> <<>>, raised |-> FALSE]

DupInit ==
  /\ dupPc = "idle"
  /\ dupItems = <<>>
  /\ dupFirst = NoRun
  /\ dupSecond = NoRun
  /\ dupProcessed = {}

\* _get_all_work_items has returned
DupFetch(items) ==
  /\ dupPc = "idle"
  /\ dupPc' = "fetched"
  /\ dupItems' = items
  /\ UNCHANGED <<dupFirst, dupSecond, dupProcessed>>

\* _identify_duplicates(work_items)
DupIdentify ==
  /\ dupPc = "fetched"
  /\ LET r == IdentifyDuplicates(dupItems, dupProcessed)
     IN /\ dupFirst' = [duplicates |-> r.duplicates, raised |-> r.raised]
        /\ dupProcessed' = r.processed
  /\ dupPc' = "ran"
  /\ UNCHANGED <<dupItems, dupSecond>>

\* _identify_duplicates(work_items) once more, on the same list
DupIdentifyAgain ==
  /\ dupPc = "ran"
  /\ LET r == IdentifyDuplicates(dupItems, dupProcessed)
     IN /\ dupSecond' = [duplicates |-> r.duplicates, raised |-> r.raised]
        /\ dupProcessed' = r.processed
  /\ dupPc' = "reran"
  /\ UNCHANGED <<dupItems, dupFirst>>

\* the lists are dropped
DupForget ==
  /\ dupPc = "reran"
  /\ dupPc' = "idle"
  /\ dupItems' = <<>>
  /\ dupFirst' = NoRun
  /\ dupSecond' = NoRun
  /\ dupProcessed' = {}

DupNext ==
  \/ /\ dupPc = "idle"
     /\ \E items \in FetchedLists : DupFetch(items)
  \/ DupIdentify
  \/ DupIdentifyAgain
  \/ DupForget

(***************************************************************************)
(* Claims about the duplicate detector                                     *)
(***************************************************************************)
\* C9: in every group the detector produces, no flagged item was created
\* before the kept item (a group holds items that all have a creation time
\* or that all have none), and the two items titled "Fix login bug" and
\* "Fix Login Bug ", created at 1 and at 2, form one group that keeps the
\* first and flags the second, in either order of the input
C9_KeptIsEarliest ==
  dupPc \in {"ran", "reran"} =>
    /\ \A g \in 1..Len(dupFirst.duplicates) :
         LET group == dupFirst.duplicates[g] IN
         \A d \in 1..Len(group.duplicates) :
           IF group.kept_item.created_date = <<>>
           THEN group.duplicates[d].created_date = <<>>
           ELSE /\ group.duplicates[d].created_date # <<>>
                /\ group.kept_item.created_date[1].t <= group.duplicates[d].created_date[1].t
    /\ dupItems \in {<<FixLoginFirst, FixLoginSecond>>, <<FixLoginSecond, FixLoginFirst>>}
         => /\ ~dupFirst.raised
            /\ Len(dupFirst.duplicates) = 1
            /\ dupFirst.duplicates[1].kept_item = FixLoginFirst
            /\ dupFirst.duplicates[1].duplicates = <<FixLoginSecond>>

\* the later of the two items comes first in the input and a group was made
C9_Witness ==
  /\ dupPc = "ran"
  /\ dupItems = <<FixLoginSecond, FixLoginFirst>>
  /\ Len(dupFirst.duplicates) = 1

\* C10: a second run of the detector on the same list gives what the first
\* run gave: the same groups, each with the same kept item and the same
\* flagged items
C10_SecondRunSame ==
  dupPc = "reran" => dupSecond = dupFirst

\* two runs were made on a list that has duplicates
C10_Witness ==
  /\ dupPc = "reran"
  /\ dupFirst.duplicates # <<>>
  /\ dupSecond.duplicates # <<>>

(***************************************************************************)
(* Management handlers that reach the tracker through the project's stored *)
(* tool: duplicate removal, backlog generation, sprint creation.  The      *)
(* content of a result is modelled by its first sentence.                  *)
(***************************************************************************)
DigitText == <<"0", "1", "2", "3", "4", "5", "6", "7", "8", "9">>

\* str(n) of a count
RECURSIVE NumText(_)
NumText(n) == IF n < 10 THEN <<DigitText[n + 1]>>
              ELSE NumText(n \div 10) \o <<DigitText[(n % 10) + 1]>>

\* tool.configuration.get('project_key') of the project's tracker
ProjectKey == <<"A", "G">>

\* how many positions of 1..n are not in failing: the calls the provider
\* answered with success
SuccessCount(n, failing) == Cardinality({i \in 1..n : i \notin failing})

\* _get_all_work_items: the items of the provider's answer, none when the
\* provider reports a failure
GetAllWorkItems(fetch) == IF fetch.kind = "ok" THEN fetch.items ELSE <<>>

\* the flagged items of all groups, in the order _delete_duplicate_items
\* visits them
RECURSIVE Flagged(_)
Flagged(duplicates) ==
  IF duplicates = <<>> THEN <<>>
  ELSE Head(duplicates).duplicates \o Flagged(Tail(duplicates))

\* _remove_duplicate_items with _delete_duplicate_items: each flagged item
\* is closed with an update, never deleted
ReadWorkItems == <<Call("get_work_items", ProjectKey, <<>>)>>

\* the update each flagged item gets, in the order of the groups
MarkDuplicates(flagged) ==
  [i \in 1..Len(flagged) |->
     Call("update_work_item", flagged[i].id,
          <<[k |-> "status", v |-> <<"D", "o", "n", "e">>], [k |-> "resolution", v |-> <<"D", "u", "p", "l", "i", "c", "a", "t", "e">>]>>)]

\* _remove_duplicate_items once the duplicates are flagged
RemoveFlagged(flagged, failing) ==
  [result |-> Success(<<"S", "u", "c", "c", "e", "s", "s", "f", "u", "l", "l", "y", " ", "c", "l", "e", "a", "n", "e", "d", " ", "u", "p", " ", "y", "o", "u", "r", " ", "b", "a", "c", "k", "l", "o", "g", " ", "b", "y", " ", "r", "e", "m", "o", "v", "i", "n", "g", " ">> \o NumText(SuccessCount(Len(flagged), failing)) \o <<" ", "d", "u", "p", "l", "i", "c", "a", "t", "e", " ", "w", "o", "r", "k", " ", "i", "t", "e", "m", "s", ".">>),
           calls |-> ReadWorkItems \o MarkDuplicates(flagged)]

\* _remove_duplicate_items from what _identify_duplicates found
RemoveFound(tools, fetch, found, failing) ==
  IF JiraTool(tools) = <<>> THEN NoCalls(Failure(<<"J", "I", "R", "A", " ", "i", "n", "t", "e", "g", "r", "a", "t", "i", "o", "n", " ", "n", "o", "t", " ", "f", "o", "u", "n", "d", ".", " ", "D", "u", "p", "l", "i", "c", "a", "t", "e", " ", "r", "e", "m", "o", "v", "a", "l", " ", "r", "e", "q", "u", "i", "r", "e", "s", " ", "J", "I", "R", "A", " ", "i", "n", "t", "e", "g", "r", "a", "t", "i", "o", "n", ".">>, <<"J", "I", "R", "A", " ", "n", "o", "t", " ", "c", "o", "n", "f", "i", "g", "u", "r", "e", "d">>))
  ELSE IF GetAllWorkItems(fetch) = <<>>
  THEN [result |-> Failure(<<"N", "o", " ", "w", "o", "r", "k", " ", "i", "t", "e", "m", "s", " ", "f", "o", "u", "n", "d", " ", "i", "n", " ", "t", "h", "e", " ", "p", "r", "o", "j", "e", "c", "t", " ", "o", "r", " ", "f", "a", "i", "l", "e", "d", " ", "t", "o", " ", "r", "e", "t", "r", "i", "e", "v", "e", " ", "t", "h", "e", "m", ".">>, <<"N", "o", " ", "w", "o", "r", "k", " ", "i", "t", "e", "m", "s", " ", "f", "o", "u", "n", "d">>), calls |-> ReadWorkItems]
  ELSE IF found.raised
  THEN [result |-> Failure(<<"F", "a", "i", "l", "e", "d", " ", "t", "o", " ", "r", "e", "m", "o", "v", "e", " ", "d", "u", "p", "l", "i", "c", "a", "t", "e", " ", "i", "t", "e", "m", "s", ".">>, <<"c", "a", "n", "'", "t", " ", "c", "o", "m", "p", "a", "r", "e", " ", "o", "f", "f", "s", "e", "t", "-", "n", "a", "i", "v", "e", " ", "a", "n", "d", " ", "o", "f", "f", "s", "e", "t", "-", "a", "w", "a", "r", "e", " ", "d", "a", "t", "e", "t", "i", "m", "e", "s">>), calls |-> ReadWorkItems]
  ELSE IF found.duplicates = <<>>
  THEN [result |-> Success(<<"N", "o", " ", "d", "u", "p", "l", "i", "c", "a", "t", "e", " ", "w", "o", "r", "k", " ", "i", "t", "e", "m", "s", " ", "f", "o", "u", "n", "d", " ", "i", "n", " ", "y", "o", "u", "r", " ", "b", "a", "c", "k", "l", "o", "g", ".", " ", "Y", "o", "u", "r", " ", "b", "a", "c", "k", "l", "o", "g", " ", "i", "s", " ", "a", "l", "r", "e", "a", "d", "y", " ", "c", "l", "e", "a", "n", "!">>), calls |-> ReadWorkItems]
  ELSE RemoveFlagged(Flagged(found.duplicates), failing)

RemoveDuplicateItems(tools, fetch, failing) ==
  RemoveFound(tools, fetch, IdentifyDuplicates(GetAllWorkItems(fetch), {}), failing)

backlog_keywords == <<<<"b", "a", "c", "k", "l", "o", "g">>, <<"g", "e", "n", "e", "r", "a", "t", "e">>, <<"r", "e", "p", "o", "s", "i", "t", "o", "r", "y">>, <<"g", "i", "t", "h", "u", "b">>>>

\* the titles of the items _generate_work_items_with_llm returns
generated_titles == <<<<"I", "m", "p", "l", "e", "m", "e", "n", "t", " ", "c", "o", "m", "p", "r", "e", "h", "e", "n", "s", "i", "v", "e", " ", "A", "P", "I", " ", "i", "n", "p", "u", "t", " ", "v", "a", "l", "i", "d", "a", "t", "i", "o", "n">>, <<"A", "d", "d", " ", "r", "a", "t", "e", " ", "l", "i", "m", "i", "t", "i", "n", "g", " ", "t", "o", " ", "p", "r", "e", "v", "e", "n", "t", " ", "A", "P", "I", " ", "a", "b", "u", "s", "e">>>>

\* _generate_backlog_items with _create_jira_work_items
GenerateBacklogItems(tools, failing) ==
  LET jira_tool == JiraTool(tools)
      creations == [i \in 1..Len(generated_titles) |->
                      Call("create_work_item", generated_titles[i], <<>>)]
      success_count == SuccessCount(Len(generated_titles), failing)
  IN IF jira_tool = <<>> THEN NoCalls(Failure(<<"J", "I", "R", "A", " ", "i", "n", "t", "e", "g", "r", "a", "t", "i", "o", "n", " ", "n", "o", "t", " ", "f", "o", "u", "n", "d", ".", " ", "P", "l", "e", "a", "s", "e", " ", "c", "o", "n", "f", "i", "g", "u", "r", "e", " ", "J", "I", "R", "A", " ", "f", "i", "r", "s", "t", ".">>, <<"J", "I", "R", "A", " ", "n", "o", "t", " ", "c", "o", "n", "f", "i", "g", "u", "r", "e", "d">>))
     ELSE [result |-> Success(<<"S", "u", "c", "c", "e", "s", "s", "f", "u", "l", "l", "y", " ", "g", "e", "n", "e", "r", "a", "t", "e", "d", " ", "a", "n", "d", " ", "c", "r", "e", "a", "t", "e", "d", " ">> \o NumText(success_count) \o <<" ", "w", "o", "r", "k", " ", "i", "t", "e", "m", "s", " ", "i", "n", " ", "J", "I", "R", "A", ".">>),
           calls |-> creations]

\* _create_work_items
CreateWorkItems(query, tools, failing) ==
  IF AnyIn(backlog_keywords, Lower(query))
  THEN GenerateBacklogItems(tools, failing)
  ELSE NoCalls(Failure(<<"S", "i", "n", "g", "l", "e", " ", "w", "o", "r", "k", " ", "i", "t", "e", "m", " ", "c", "r", "e", "a", "t", "i", "o", "n", " ", "n", "o", "t", " ", "y", "e", "t", " ", "i", "m", "p", "l", "e", "m", "e", "n", "t", "e", "d", ".", " ", "P", "l", "e", "a", "s", "e", " ", "u", "s", "e", " ", "b", "a", "c", "k", "l", "o", "g", " ", "g", "e", "n", "e", "r", "a", "t", "i", "o", "n", " ", "i", "n", "s", "t", "e", "a", "d", ".">>, <<"F", "e", "a", "t", "u", "r", "e", " ", "n", "o", "t", " ", "i", "m", "p", "l", "e", "m", "e", "n", "t", "e", "d">>))

\* (?:st|nd|rd|th)?
Ordinal == ROpt(RAlt(<<RLit(<<"s", "t">>), RLit(<<"n", "d">>), RLit(<<"r", "d">>), RLit(<<"t", "h">>)>>))

Digits(lo, hi) == RRep(RDigit, lo, hi, TRUE)

date_patterns ==
  <<RGrp(RCat(<<Digits(1, 2), Ordinal, RSp1, RPlus(RWord), RSp1, Digits(4, 4)>>)),
    RGrp(RCat(<<RPlus(RWord), RSp1, Digits(1, 2), Ordinal, RSp0, ROpt(RLit(<<",">>)), RSp1, Digits(4, 4)>>)),
    RGrp(RCat(<<RPlus(RWord), RSp1, Digits(1, 2), RSp1, Digits(4, 4)>>)),
    RGrp(RCat(<<Digits(4, 4), RLit(<<"-">>), Digits(2, 2), RLit(<<"-">>), Digits(2, 2)>>)),
    RGrp(RCat(<<Digits(1, 2), RLit(<<"/">>), Digits(1, 2), RLit(<<"/">>), Digits(4, 4)>>))>>

\* re.findall(re, s) for a pattern with one group and no empty match
RECURSIVE FindAllFrom(_, _, _, _)
RECURSIVE FindAllAfter(_, _, _, _)
FindAllFrom(re, s, ic, i) ==
  IF i > Len(s) THEN <<>>
  ELSE FindAllAfter(SearchFrom(re, s, ic, i), re, s, ic)

\* the group of the match m, then those of the matches after it
FindAllAfter(m, re, s, ic) ==
  IF ~m.found THEN <<>>
  ELSE <<m.group>> \o FindAllFrom(re, s, ic, m.end)

FindAll(re, s, ic) == FindAllFrom(re, s, ic, 1)

\* the first occurrence of each member, in order
RECURSIVE Unique(_)
Unique(q) ==
  IF q = <<>> THEN <<>>
  ELSE LET rest == Unique(SubSeq(q, 1, Len(q) - 1))
       IN IF q[Len(q)] \in Range(rest) THEN rest ELSE Append(rest, q[Len(q)])

\* the sprint_plan of the dates found: the first two distinct ones
SprintPlan(unique_dates) ==
  [start_date |-> IF Len(unique_dates) >= 1 THEN unique_dates[1] ELSE NoText,
   end_date |-> IF Len(unique_dates) >= 2 THEN unique_dates[2] ELSE NoText]

\* re.findall of each of the patterns from p on, in the order of the patterns
RECURSIVE DatesFound(_, _, _)
DatesFound(patterns, p, query) ==
  IF p > Len(patterns) THEN <<>>
  ELSE FindAll(patterns[p], query, TRUE) \o DatesFound(patterns, p + 1, query)

\* _parse_sprint_requirements
ParseSprintRequirements(query) == SprintPlan(Unique(DatesFound(date_patterns, 1, query)))

\* _extract_sprints_from_plan: no sprint without two dates; with two, as
\* many two-week sprints as the date parser's reading of them spans, none
\* when it cannot read them
ExtractSprintsFromPlan(sprint_plan, spans) ==
  IF sprint_plan.start_date # NoText /\ sprint_plan.end_date # NoText
  THEN [i \in 1..spans |-> <<"S", "p", "r", "i", "n", "t", " ">> \o NumText(i)]
  ELSE <<>>

\* the status_message of _create_sprint for n sprints planned
SprintStatusMessage(n, success_count) ==
  IF success_count = n
  THEN <<"S", "u", "c", "c", "e", "s", "s", "f", "u", "l", "l", "y", " ", "p", "l", "a", "n", "n", "e", "d", " ", "a", "n", "d", " ", "c", "r", "e", "a", "t", "e", "d", " ">> \o NumText(success_count) \o <<" ", "s", "p", "r", "i", "n", "t", "s", " ", "f", "o", "r", " ", "y", "o", "u", "r", " ", "p", "r", "o", "j", "e", "c", "t", ".">>
  ELSE IF success_count > 0
  THEN <<"S", "u", "c", "c", "e", "s", "s", "f", "u", "l", "l", "y", " ", "p", "l", "a", "n", "n", "e", "d", " ">> \o NumText(n) \o <<" ", "s", "p", "r", "i", "n", "t", "s", " ", "a", "n", "d", " ", "c", "r", "e", "a", "t", "e", "d", " ">> \o NumText(success_count) \o <<" ", "o", "f", " ", "t", "h", "e", "m", " ", "i", "n", " ", "J", "I", "R", "A", ".">>
  ELSE <<"S", "u", "c", "c", "e", "s", "s", "f", "u", "l", "l", "y", " ", "p", "l", "a", "n", "n", "e", "d", " ">> \o NumText(n) \o <<" ", "s", "p", "r", "i", "n", "t", "s", ",", " ", "b", "u", "t", " ", "e", "n", "c", "o", "u", "n", "t", "e", "r", "e", "d", " ", "i", "s", "s", "u", "e", "s", " ", "c", "r", "e", "a", "t", "i", "n", "g", " ", "t", "h", "e", "m", " ", "i", "n", " ", "J", "I", "R", "A", ".">>

\* _create_sprints_in_jira: one create_sprint per planned sprint
CreateSprintsInJira(sprints, failing) ==
  [calls |-> [i \in 1..Len(sprints) |-> Call("create_sprint", sprints[i], <<>>)],
   success_count |-> SuccessCount(Len(sprints), failing)]

\* _create_sprint once the sprints are planned and created
SprintsCreated(n, created) ==
  [result |-> Success(SprintStatusMessage(n, created.success_count)), calls |-> created.calls]

\* _create_sprint from the planned sprints on
CreatePlannedSprints(jira_tool, sprints, failing) ==
  IF jira_tool = <<>> THEN NoCalls(Failure(<<"J", "I", "R", "A", " ", "i", "n", "t", "e", "g", "r", "a", "t", "i", "o", "n", " ", "n", "o", "t", " ", "f", "o", "u", "n", "d", ".", " ", "S", "p", "r", "i", "n", "t", " ", "c", "r", "e", "a", "t", "i", "o", "n", " ", "r", "e", "q", "u", "i", "r", "e", "s", " ", "J", "I", "R", "A", " ", "i", "n", "t", "e", "g", "r", "a", "t", "i", "o", "n", ".">>, <<"J", "I", "R", "A", " ", "n", "o", "t", " ", "c", "o", "n", "f", "i", "g", "u", "r", "e", "d">>))
  ELSE SprintsCreated(Len(sprints), CreateSprintsInJira(sprints, failing))

\* _create_sprint
CreateSprint(query, tools, spans, failing) ==
  CreatePlannedSprints(JiraTool(tools), ExtractSprintsFromPlan(ParseSprintRequirements(query), spans),
                       failing)

\* confidence > 0.7 raises TypeError unless the confidence is a number
GeneralRaises(decision) == decision.confidence.t # "num"

\* _general_management
GeneralManagement(decision) ==
  NoCalls(Success(IF decision.confidence.v > 7 THEN <<"I", " ", "u", "n", "d", "e", "r", "s", "t", "a", "n", "d", " ", "y", "o", "u", " ", "w", "a", "n", "t", " ", "t", "o", " ", "p", "e", "r", "f", "o", "r", "m", " ", "a", " ", "m", "a", "n", "a", "g", "e", "m", "e", "n", "t", " ", "o", "p", "e", "r", "a", "t", "i", "o", "n", ",", " ", "b", "u", "t", " ", "I", " ", "n", "e", "e", "d", " ", "m", "o", "r", "e", " ", "s", "p", "e", "c", "i", "f", "i", "c", " ", "i", "n", "f", "o", "r", "m", "a", "t", "i", "o", "n", " ", "t", "o", " ", "h", "e", "l", "p", " ", "y", "o", "u", " ", "e", "f", "f", "e", "c", "t", "i", "v", "e", "l", "y", ".">> ELSE <<"I", " ", "w", "a", "n", "t", " ", "t", "o", " ", "h", "e", "l", "p", " ", "y", "o", "u", " ", "w", "i", "t", "h", " ", "y", "o", "u", "r", " ", "p", "r", "o", "j", "e", "c", "t", " ", "m", "a", "n", "a", "g", "e", "m", "e", "n", "t", " ", "r", "e", "q", "u", "e", "s", "t", ",", " ", "b", "u", "t", " ", "I", " ", "n", "e", "e", "d", " ", "s", "o", "m", "e", " ", "c", "l", "a", "r", "i", "f", "i", "c", "a", "t", "i", "o", "n", " ", "t", "o", " ", "e", "n", "s", "u", "r", "e", " ", "I", " ", "p", "r", "o", "v", "i", "d", "e", " ", "t", "h", "e", " ", "r", "i", "g", "h", "t", " ", "a", "s", "s", "i", "s", "t", "a", "n", "c", "e", ".">>))

(***************************************************************************)
(* The two specialised agents, agents/management.py and agents/analysis.py *)
(***************************************************************************)
\* _get_project_context: one entry per tool of the project whose adapter
\* can be built.  Only the tracker's can: the other two adapters are given
\* a keyword their constructors do not take, and the tool is skipped.  The
\* entry's data (the items and sprints read) is used by no agent and is
\* left empty here.
RECURSIVE ProjectContextTools(_)
ProjectContextTools(project_tools) ==
  IF project_tools = <<>> THEN <<>>
  ELSE (IF Head(project_tools) = "jira"
        THEN <<[type |-> "jira", name |-> <<"j", "i", "r", "a">>, data |-> EmptyDict]>>
        ELSE <<>>)
       \o ProjectContextTools(Tail(project_tools))

\* the reads _get_project_context issues for each tool it lists
RECURSIVE ContextReads(_)
ContextReads(tools) ==
  IF tools = <<>> THEN <<>>
  ELSE <<Call("get_work_items", ProjectKey, <<>>), Call("get_sprints", ProjectKey, <<>>)>>
       \o ContextReads(Tail(tools))

update_keywords ==
  <<<<"s", "t", "a", "t", "u", "s">>, <<"s", "t", "a", "t", "e">>, <<"p", "r", "o", "g", "r", "e", "s", "s">>, <<"d", "o", "n", "e">>, <<"t", "o", "d", "o">>, <<"c", "o", "m", "p", "l", "e", "t", "e">>, <<"c", "o", "m", "p", "l", "e", "t", "e", "d">>, <<"c", "l", "o", "s", "e", "d">>, <<"o", "p", "e", "n">>, <<"b", "l", "o", "c", "k", "e", "d">>, <<"p", "r", "i", "o", "r", "i", "t", "y">>, <<"t", "i", "t", "l", "e">>, <<"d", "e", "s", "c", "r", "i", "p", "t", "i", "o", "n">>>>

assignment_keywords == <<<<"a", "s", "s", "i", "g", "n">>, <<"a", "s", "s", "i", "g", "n", "e", "e">>, <<"a", "s", "s", "i", "g", "n", "e", "d">>>>

\* the branch of ManagementAgent.execute a decision selects; "raise" when
\* the reasoning is not a text and .lower() fails
ManagementOperation(query, decision) ==
  LET action_type == decision.action_type
      entities == Range(decision.entities_needed)
      has_status_keyword == AnyIn(update_keywords, Lower(query))
      is_assignment == /\ ~has_status_keyword
                       /\ FirstFind(non_status_person_patterns, query, TRUE).found
      has_assignment_keyword == AnyIn(assignment_keywords, Lower(query))
  IN CASE action_type = JStr(<<"c", "r", "e", "a", "t", "e">>) ->
            IF "work_item" \in entities THEN "create_work_items"
            ELSE IF "sprint" \in entities THEN "create_sprint"
            ELSE "general"
       [] action_type = JStr(<<"u", "p", "d", "a", "t", "e">>) ->
            IF is_assignment \/ (has_assignment_keyword /\ ~has_status_keyword)
            THEN "assign" ELSE "update"
       [] action_type = JStr(<<"d", "e", "l", "e", "t", "e">>) ->
            IF decision.reasoning.t # "str" THEN "raise"
            ELSE IF Contains(Lower(decision.reasoning.v), <<"d", "u", "p", "l", "i", "c", "a", "t", "e">>)
            THEN "remove_duplicates" ELSE "delete"
       [] action_type = JStr(<<"a", "s", "s", "i", "g", "n">>) -> "assign"
       [] action_type = JStr(<<"m", "o", "v", "e">>) -> "move"
       [] action_type = JStr(<<"p", "l", "a", "n">>) -> "create_sprint"
       [] OTHER -> "general"

\* an except clause that reports the operation as done
ManagementError_Success(e) == Success(<<"I", " ", "e", "n", "c", "o", "u", "n", "t", "e", "r", "e", "d", " ", "a", "n", " ", "e", "r", "r", "o", "r", " ", "w", "h", "i", "l", "e", " ", "p", "e", "r", "f", "o", "r", "m", "i", "n", "g", " ", "t", "h", "e", " ", "m", "a", "n", "a", "g", "e", "m", "e", "n", "t", " ", "o", "p", "e", "r", "a", "t", "i", "o", "n", ".">>)

\* the response of the except clause that closes ManagementAgent.execute
ManagementError(e) == Failure(<<"I", " ", "e", "n", "c", "o", "u", "n", "t", "e", "r", "e", "d", " ", "a", "n", " ", "e", "r", "r", "o", "r", " ", "w", "h", "i", "l", "e", " ", "p", "e", "r", "f", "o", "r", "m", "i", "n", "g", " ", "t", "h", "e", " ", "m", "a", "n", "a", "g", "e", "m", "e", "n", "t", " ", "o", "p", "e", "r", "a", "t", "i", "o", "n", ".">>, e)

\* the response of the except clause that closes AnalysisAgent.execute
AnalysisError(e) == Failure(<<"I", " ", "e", "n", "c", "o", "u", "n", "t", "e", "r", "e", "d", " ", "a", "n", " ", "e", "r", "r", "o", "r", " ", "w", "h", "i", "l", "e", " ", "a", "n", "a", "l", "y", "z", "i", "n", "g", " ", "y", "o", "u", "r", " ", "p", "r", "o", "j", "e", "c", "t", " ", "d", "a", "t", "a", ".">>, e)

\* the two early returns both agents share, as <<response>>, or <<>> to go on
EarlyReturn(agent, project) ==
  IF project.id = NoInt
  THEN <<Failure(IF agent = "management" THEN <<"N", "o", " ", "p", "r", "o", "j", "e", "c", "t", " ", "s", "p", "e", "c", "i", "f", "i", "e", "d", " ", "f", "o", "r", " ", "m", "a", "n", "a", "g", "e", "m", "e", "n", "t", " ", "o", "p", "e", "r", "a", "t", "i", "o", "n", "s", ".">> ELSE <<"N", "o", " ", "p", "r", "o", "j", "e", "c", "t", " ", "s", "p", "e", "c", "i", "f", "i", "e", "d", " ", "f", "o", "r", " ", "a", "n", "a", "l", "y", "s", "i", "s", ".">>, <<"P", "r", "o", "j", "e", "c", "t", " ", "I", "D", " ", "i", "s", " ", "r", "e", "q", "u", "i", "r", "e", "d">>)>>
  ELSE IF ProjectContextTools(project.tools) = <<>>
  THEN <<Failure(<<"N", "o", " ", "t", "o", "o", "l", "s", " ", "c", "o", "n", "f", "i", "g", "u", "r", "e", "d", " ", "f", "o", "r", " ", "t", "h", "i", "s", " ", "p", "r", "o", "j", "e", "c", "t", ".", " ", "P", "l", "e", "a", "s", "e", " ", "c", "o", "n", "f", "i", "g", "u", "r", "e", " ", "J", "I", "R", "A", " ", "o", "r", " ", "o", "t", "h", "e", "r", " ", "p", "r", "o", "j", "e", "c", "t", " ", "m", "a", "n", "a", "g", "e", "m", "e", "n", "t", " ", "t", "o", "o", "l", "s", " ", "f", "i", "r", "s", "t", ".">>, <<"N", "o", " ", "t", "o", "o", "l", "s", " ", "c", "o", "n", "f", "i", "g", "u", "r", "e", "d">>)>>
  ELSE <<>>

\* _register_actual_providers: the adapters that can be built are put in
\* the aggregation engine's registry, which outlives the request
RegisterActualProviders(project_tools, providers) ==
  providers \cup (Range(project_tools) \cap {"jira", "github"})

\* the provider method behind a fetch
ReadOp(entity) == IF entity = "sprint" THEN "get_sprints" ELSE "get_work_items"

\* the provider calls of execute_unified_query: for each relevant tool, for
\* each entity asked for, the read that _fetch_from_tool reaches
RECURSIVE FetchCalls(_, _, _)
FetchCalls(tool, entities, filters) ==
  IF entities = <<>> THEN <<>>
  ELSE (IF FetchKind(tool, Head(entities), filters) = "call"
        THEN <<Call(ReadOp(Head(entities)), ProjectKey, <<>>)>>
        ELSE <<>>)
       \o FetchCalls(tool, Tail(entities), filters)

RECURSIVE UnifiedCalls(_, _, _)
UnifiedCalls(relevant, entities, filters) ==
  IF relevant = <<>> THEN <<>>
  ELSE FetchCalls(Head(relevant), entities, filters)
       \o UnifiedCalls(Tail(relevant), entities, filters)

\* AnalysisAgent.execute from the decision on, for a decision whose filters
\* and additional context are objects
AnalysisOperation(decision, tools, providers) ==
  LET available == GetAvailableTools([i \in 1..Len(tools) |-> tools[i].type], providers)
      relevant == DetermineRelevantTools([entities |-> decision.entities_needed], available)
  IN IF relevant = <<>>
     THEN NoCalls(Failure(<<"F", "a", "i", "l", "e", "d", " ", "t", "o", " ", "r", "e", "t", "r", "i", "e", "v", "e", " ", "d", "a", "t", "a", " ", "f", "r", "o", "m", " ", "t", "h", "e", " ", "c", "o", "n", "f", "i", "g", "u", "r", "e", "d", " ", "t", "o", "o", "l", "s", ".">>, <<"N", "o", " ", "r", "e", "l", "e", "v", "a", "n", "t", " ", "t", "o", "o", "l", "s", " ", "a", "v", "a", "i", "l", "a", "b", "l", "e", " ", "f", "o", "r", " ", "t", "h", "i", "s", " ", "q", "u", "e", "r", "y">>))
     ELSE [result |-> Success(<<"#", "#", " ", "I", "n", "t", "e", "l", "l", "i", "g", "e", "n", "t", " ", "P", "r", "o", "j", "e", "c", "t", " ", "A", "n", "a", "l", "y", "s", "i", "s">>),
           calls |-> UnifiedCalls(relevant, decision.entities_needed, decision.filters.v)]

(***************************************************************************)
(* One request through the router and the agent it selects,                *)
(* agents/main.py with agents/analysis.py and agents/management.py         *)
(***************************************************************************)
MaxSprints == 2

MaxFailing == 2

\* requests whose id is not an upper-case prefix, a dash and digits
BadIdRequests ==
  {<<"u", "p", "d", "a", "t", "e", " ", "a", "g", "-", "1", "2", " ", "s", "t", "a", "t", "u", "s", " ", "t", "o", " ", "d", "o", "n", "e">>, <<"u", "p", "d", "a", "t", "e", " ", "A", "G", "-", "1", "2", "x", " ", "s", "t", "a", "t", "u", "s", " ", "t", "o", " ", "d", "o", "n", "e">>, <<"u", "p", "d", "a", "t", "e", " ", "a", "g", "1", "2", "3", " ", "s", "t", "a", "t", "u", "s", " ", "t", "o", " ", "d", "o", "n", "e">>, <<"u", "p", "d", "a", "t", "e", " ", "A", "G", "-", " ", "s", "t", "a", "t", "u", "s", " ", "t", "o", " ", "d", "o", "n", "e">>, <<"d", "e", "l", "e", "t", "e", " ", "A", "G", "-", "1", "2", "x">>, <<"d", "e", "l", "e", "t", "e", " ", "a", "g", "1", "2", "3">>,
   <<"a", "s", "s", "i", "g", "n", " ", "a", "g", "-", "1", "2", " ", "t", "o", " ", "s", "p", "r", "i", "n", "t", " ", "3">>, <<"a", "s", "s", "i", "g", "n", " ", "a", "g", "1", "2", "3", " ", "t", "o", " ", "s", "p", "r", "i", "n", "t", " ", "3">>}

\* requests with an id and no update value or assignee
NoValueRequests == {<<"u", "p", "d", "a", "t", "e", " ", "A", "G", "-", "1", "2">>, <<"a", "s", "s", "i", "g", "n", " ", "A", "G", "-", "1", "2">>}

MainRequests ==
  BadIdRequests \cup NoValueRequests \cup
  {AssignDana, ShowBacklog, <<"h", "e", "l", "l", "o", " ", "t", "h", "e", "r", "e">>, <<"u", "p", "d", "a", "t", "e", " ", "s", "t", "a", "t", "u", "s", " ", "o", "f", " ", "w", "o", "r", "k", "i", "t", "e", "m", " ", "A", "G", "-", "1", " ", "t", "o", " ", "d", "o", "n", "e">>, <<"l", "i", "s", "t", " ", "n", "e", "w", " ", "i", "t", "e", "m", "s">>, <<"c", "u", "r", "r", "e", "n", "t", " ", "t", "r", "a", "n", "s", "i", "t", "i", "o", "n">>, <<"p", "l", "a", "n", " ", "t", "h", "e", " ", "w", "e", "e", "k">>,
   <<"f", "i", "n", "d", " ", "m", "y", " ", "t", "a", "s", "k", "s">>, <<"g", "e", "n", "e", "r", "a", "t", "e", " ", "b", "a", "c", "k", "l", "o", "g", " ", "i", "t", "e", "m", "s">>, <<"p", "l", "a", "n", " ", "s", "p", "r", "i", "n", "t", "s", " ", "2", "0", "2", "5", "-", "0", "1", "-", "0", "1", " ", "2", "0", "2", "5", "-", "0", "2", "-", "0", "1">>, <<"r", "e", "m", "o", "v", "e", " ", "d", "u", "p", "l", "i", "c", "a", "t", "e", " ", "i", "t", "e", "m", "s">>, <<"d", "e", "l", "e", "t", "e", " ", "A", "G", "-", "1", "2">>}

\* a request names no project, or a project with these tools
Projects ==
  {[id |-> NoInt, tools |-> <<>>]} \cup
  {[id |-> SomeInt(1), tools |-> t] : t \in {<<>>, <<"jira">>, <<"github", "jira">>}}

\* replies of the decision model: none, or an object
DecisionReplies ==
  LET Obj(a, e, r, c, f) ==
        [kind |-> "json",
         data |-> ReplyObject(<<JStr(a)>>, e, f, r, c, <<>>, <<>>)]
      items == <<JList(<<JStr(<<"w", "o", "r", "k", "_", "i", "t", "e", "m">>)>>)>>
  IN {[kind |-> "raise", data |-> EmptyDict],
      Obj(<<"u", "p", "d", "a", "t", "e">>, items, <<>>, <<>>, <<>>),
      Obj(<<"a", "s", "s", "i", "g", "n">>, items, <<>>, <<>>, <<>>),
      Obj(<<"d", "e", "l", "e", "t", "e">>, items, <<JStr(<<"R", "e", "m", "o", "v", "e", " ", "t", "h", "e", " ", "i", "t", "e", "m">>)>>, <<>>, <<>>),
      Obj(<<"d", "e", "l", "e", "t", "e">>, items, <<JStr(<<"R", "e", "m", "o", "v", "e", " ", "d", "u", "p", "l", "i", "c", "a", "t", "e", " ", "i", "t", "e", "m", "s">>)>>, <<>>, <<>>),
      Obj(<<"d", "e", "l", "e", "t", "e">>, items, <<JNum(5)>>, <<>>, <<>>),
      Obj(<<"c", "r", "e", "a", "t", "e">>, items, <<>>, <<>>, <<>>),
      Obj(<<"c", "r", "e", "a", "t", "e">>, <<JList(<<JStr(<<"s", "p", "r", "i", "n", "t">>)>>)>>, <<>>, <<>>, <<>>),
      Obj(<<"c", "r", "e", "a", "t", "e">>, <<JList(<<>>)>>, <<>>, <<JNum(9)>>, <<>>),
      Obj(<<"p", "l", "a", "n">>, <<JList(<<JStr(<<"s", "p", "r", "i", "n", "t">>)>>)>>, <<>>, <<>>, <<>>),
      Obj(<<"m", "o", "v", "e">>, items, <<>>, <<>>, <<>>),
      Obj(<<"a", "n", "a", "l", "y", "z", "e">>, <<JList(<<JStr(<<"w", "o", "r", "k", "_", "i", "t", "e", "m">>), JStr(<<"s", "p", "r", "i", "n", "t">>)>>)>>, <<>>, <<>>, <<>>),
      Obj(<<"a", "n", "a", "l", "y", "z", "e">>, <<JList(<<JStr(<<"s", "p", "r", "i", "n", "t">>), JStr(<<"w", "o", "r", "k", "_", "i", "t", "e", "m">>)>>)>>, <<>>, <<JStr(<<"h", "i", "g", "h">>)>>,
          <<JDict([status |-> JStr(<<"d", "o", "n", "e">>)])>>),
      Obj(<<"a", "n", "a", "l", "y", "z", "e">>, <<JList(<<JStr(<<"r", "e", "p", "o", "s", "i", "t", "o", "r", "y">>)>>)>>, <<>>, <<>>, <<>>),
      Obj(<<"a", "n", "a", "l", "y", "z", "e">>, <<JNull>>, <<>>, <<>>, <<>>)}

\* what provider.update_work_item returns
UpdateResponses ==
  {[kind |-> "ok", error |-> NoText], [kind |-> "fail", error |-> <<"4", "0", "4", " ", "C", "l", "i", "e", "n", "t", " ", "E", "r", "r", "o", "r">>]}

\* what provider.get_sprints returns to the sprint assignment
SprintFetches ==
  {[kind |-> "ok", error |-> NoText, items |-> <<[id |-> <<"3">>, name |-> <<"S", "p", "r", "i", "n", "t", " ", "3">>]>>]}

\* what the request that adds an issue to a sprint does
SprintPosts ==
  {[kind |-> "ok", status |-> <<"2", "0", "4">>, text |-> <<>>, error |-> NoText]}

\* what provider.get_work_items returns to the duplicate removal
ItemFetches ==
  {[kind |-> "fail", items |-> <<>>]} \cup
  {[kind |-> "ok", items |-> l] :
     l \in {<<>>, <<FixLoginSecond, FixLoginFirst>>, <<FetchedItems[4], FixLoginFirst>>,
            <<FixLoginFirst, FetchedItems[3], FixLoginSecond>>,
            <<FetchedItems[4], FixLoginFirst, FetchedItems[5]>>}}

MutationOps == {"create_work_item", "update_work_item", "create_sprint", "add_to_sprint"}

VARIABLES
  mainPc,         \* "idle", "routing", "deciding", "handling", "respond", "returned"
  mainQuery,      \* the request text
  mainProject,    \* the project the request names
  mainIntent,     \* the router's intent analysis
  mainAgent,      \* the agent the router built
  mainDecision,   \* what analyze_query_and_decide gave the agent
  mainOperation,  \* the handler the agent selected
  mainCalls,      \* the provider calls issued for the request, in order
  mainResponse,   \* the response
  mainProviders,  \* the adapters in the aggregation engine's registry
  mainModelCalls, \* how many times the routing model was called for the request
  mainHandlerRuns, \* how many times an agent's execute was called for the request
  mainRouted      \* the response MainAgent.execute returns

mainVars == <<mainPc, mainQuery, mainProject, mainIntent, mainAgent, mainDecision,
              mainOperation, mainCalls, mainResponse, mainProviders,
              mainModelCalls, mainHandlerRuns, mainRouted>>

NoProject == [id |-> NoInt, tools |-> <<>>]

NoIntent ==
  [success |-> FALSE, path |-> "none", target_agent |-> "none", confidence |-> JNull,
   reasoning |-> JNull]

NoDecision == [raised |-> TRUE, path |-> "none"]

NoResponse == [success |-> FALSE, content |-> <<>>, error |-> NoText]

\* an AgentResponse's data: <<>> is None, <<d>> is the dict d
NoData == <<>>

NoRouted == [success |-> FALSE, content |-> <<>>, error |-> NoText, data |-> NoData]

MainInit ==
  /\ mainPc = "idle"
  /\ mainQuery = <<>>
  /\ mainProject = NoProject
  /\ mainIntent = NoIntent
  /\ mainAgent = "none"
  /\ mainDecision = NoDecision
  /\ mainOperation = "none"
  /\ mainCalls = <<>>
  /\ mainResponse = NoResponse
  /\ mainProviders = {}
  /\ mainModelCalls = 0
  /\ mainHandlerRuns = 0
  /\ mainRouted = NoRouted

\* if target_agent == 'analysis': AnalysisAgent() elif 'management': ..
AgentFor_AlwaysManagement(target_agent) == "management"

AgentFor(target_agent) ==
  CASE target_agent = "analysis" -> "analysis"
    [] target_agent = "management" -> "management"
    [] OTHER -> "unknown"

\* the calls of a handler, marked with the agent that issued them
Issued(agent, calls) ==
  [i \in 1..Len(calls) |->
     [agent |-> agent, op |-> calls[i].op, id |-> calls[i].id, updates |-> calls[i].updates]]

\* a request arrives
MainReceive(query, project) ==
  /\ mainPc = "idle"
  /\ mainPc' = "routing"
  /\ mainQuery' = query
  /\ mainProject' = project
  /\ UNCHANGED <<mainIntent, mainAgent, mainDecision, mainOperation, mainCalls,
                 mainResponse, mainProviders, mainModelCalls, mainHandlerRuns, mainRouted>>

\* the tool types of the project context
DecisionTools(tools) == [i \in 1..Len(tools) |-> tools[i].type]

\* the two responses of MainAgent.execute that no agent gives
IntentAnalysisFailed ==
  Failure(<<"I", " ", "c", "o", "u", "l", "d", "n", "'", "t", " ", "u", "n", "d", "e", "r", "s", "t", "a", "n", "d", " ", "y", "o", "u", "r", " ", "r", "e", "q", "u", "e", "s", "t", ".", " ", "P", "l", "e", "a", "s", "e", " ", "t", "r", "y", " ", "r", "e", "p", "h", "r", "a", "s", "i", "n", "g", " ", "y", "o", "u", "r", " ", "m", "e", "s", "s", "a", "g", "e", ".">>,
          <<"I", "n", "t", "e", "n", "t", " ", "a", "n", "a", "l", "y", "s", "i", "s", " ", "f", "a", "i", "l", "e", "d">>)

AgentText(target_agent) ==
  CASE target_agent = "analysis" -> <<"a", "n", "a", "l", "y", "s", "i", "s">>
    [] target_agent = "management" -> <<"m", "a", "n", "a", "g", "e", "m", "e", "n", "t">>
    [] OTHER -> <<"n", "o", "n", "e">>

UnknownTargetAgent(target_agent) ==
  Failure(<<"I", "'", "m", " ", "n", "o", "t", " ", "s", "u", "r", "e", " ", "h", "o", "w", " ", "t", "o", " ", "h", "a", "n", "d", "l", "e", " ", "t", "h", "a", "t", " ", "r", "e", "q", "u", "e", "s", "t", ".", " ", "P", "l", "e", "a", "s", "e", " ", "t", "r", "y", " ", "b", "e", "i", "n", "g", " ", "m", "o", "r", "e", " ", "s", "p", "e", "c", "i", "f", "i", "c", " ", "a", "b", "o", "u", "t", " ", "w", "h", "a", "t", " ", "y", "o", "u", "'", "d", " ", "l", "i", "k", "e", " ", "m", "e", " ", "t", "o", " ", "d", "o", ".">>,
          <<"U", "n", "k", "n", "o", "w", "n", " ", "t", "a", "r", "g", "e", "t", " ", "a", "g", "e", "n", "t", ":", " ">> \o AgentText(target_agent))

\* MainAgent.execute returns without calling an agent
Unrouted(intent, response) ==
  /\ mainIntent' = intent
  /\ mainAgent' = "none"
  /\ mainCalls' = mainCalls
  /\ mainResponse' = response
  /\ mainPc' = "respond"
  /\ mainHandlerRuns' = mainHandlerRuns

\* the agent is selected, its execute called and its project context read;
\* early is the response of an agent that returns before it decides
Routed(intent, agent, early) ==
  /\ mainIntent' = intent
  /\ mainAgent' = agent
  /\ mainHandlerRuns' = mainHandlerRuns + 1
  /\ mainCalls' = IF mainProject.id = NoInt THEN <<>>
                  ELSE Issued(agent, ContextReads(ProjectContextTools(mainProject.tools)))
  /\ IF early # <<>>
     THEN /\ mainResponse' = early[1]
          /\ mainPc' = "respond"
     ELSE /\ mainResponse' = mainResponse
          /\ mainPc' = "deciding"

RoutedTo(intent, agent) == Routed(intent, agent, EarlyReturn(agent, mainProject))

RoutedBy(intent) ==
  IF ~intent.success THEN Unrouted(intent, IntentAnalysisFailed)
  ELSE IF AgentFor(intent.target_agent) = "unknown"
  THEN Unrouted(intent, UnknownTargetAgent(intent.target_agent))
  ELSE RoutedTo(intent, AgentFor(intent.target_agent))

\* MainAgent.execute from the router model's reply to the selected agent's
\* project context
MainRoute(reply) ==
  /\ mainPc = "routing"
  /\ RoutedBy(AnalyzeUserIntent(mainQuery, reply))
  /\ mainModelCalls' = mainModelCalls + 1
  /\ UNCHANGED <<mainQuery, mainProject, mainDecision, mainOperation, mainProviders,
                 mainRouted>>

\* the exception the agent's execute catches before any handler runs
DecideError(made) ==
  IF made.raised THEN <<"o", "b", "j", "e", "c", "t", " ", "i", "s", " ", "n", "o", "t", " ", "i", "t", "e", "r", "a", "b", "l", "e">> ELSE <<"o", "b", "j", "e", "c", "t", " ", "h", "a", "s", " ", "n", "o", " ", "a", "t", "t", "r", "i", "b", "u", "t", "e", " ", "'", "l", "o", "w", "e", "r", "'">>

\* the handler the agent's execute chooses for the decision made
OperationFor(made) ==
  IF made.raised THEN "raise"
  ELSE IF mainAgent = "analysis" THEN "analysis"
  ELSE ManagementOperation(mainQuery, made.decision)

Decided(made, operation) ==
  /\ mainDecision' = made
  /\ mainOperation' = operation
  /\ IF operation = "raise"
     THEN /\ mainResponse' = IF mainAgent = "analysis" THEN AnalysisError(DecideError(made))
                             ELSE ManagementError(DecideError(made))
          /\ mainPc' = "respond"
     ELSE /\ mainResponse' = mainResponse
          /\ mainPc' = "handling"

DecidedBy(made) == Decided(made, OperationFor(made))

\* the agent's execute from the decision model's reply to the choice of a
\* handler
AgentDecide(reply) ==
  /\ mainPc = "deciding"
  /\ DecidedBy(AnalyzeQueryAndDecide(mainQuery, DecisionTools(ProjectContextTools(mainProject.tools)), reply))
  /\ UNCHANGED <<mainQuery, mainProject, mainIntent, mainAgent, mainCalls, mainProviders,
                 mainModelCalls, mainHandlerRuns, mainRouted>>

\* a handler has run: its result becomes the response
Handled(operation, done) ==
  /\ mainPc = "handling"
  /\ mainOperation = operation
  /\ mainPc' = "respond"
  /\ mainResponse' = done.result
  /\ mainCalls' = mainCalls \o Issued(mainAgent, done.calls)
  /\ UNCHANGED <<mainQuery, mainProject, mainIntent, mainAgent, mainDecision, mainOperation,
                 mainModelCalls, mainHandlerRuns, mainRouted>>

ContextTools == ProjectContextTools(mainProject.tools)

RunAnalysis ==
  /\ mainProviders' = RegisterActualProviders(mainProject.tools, mainProviders)
  /\ Handled("analysis", AnalysisOperation(mainDecision.decision, ContextTools, mainProviders'))

RunUpdate(response) ==
  /\ Handled("update", UpdateWorkItem(mainQuery, ContextTools, response))
  /\ UNCHANGED mainProviders

RunAssign(response, fetched, post) ==
  /\ Handled("assign", AssignWork(mainQuery, ContextTools, response, fetched, post))
  /\ UNCHANGED mainProviders

RunDelete ==
  /\ Handled("delete", DeleteWorkItem(mainQuery, ContextTools))
  /\ UNCHANGED mainProviders

RunMove ==
  /\ Handled("move", MoveItemsStatus)
  /\ UNCHANGED mainProviders

\* the handler's result for each set of updates that fail
RemovingFound(fetch, found) ==
  \E failing \in SUBSET (1..MaxFailing) :
    Handled("remove_duplicates", RemoveFound(ContextTools, fetch, found, failing))

RunRemoveDuplicates(fetch) ==
  /\ mainPc = "handling"
  /\ mainOperation = "remove_duplicates"
  /\ RemovingFound(fetch, IdentifyDuplicates(GetAllWorkItems(fetch), {}))
  /\ UNCHANGED mainProviders

RunCreateWorkItems(failing) ==
  /\ Handled("create_work_items", CreateWorkItems(mainQuery, ContextTools, failing))
  /\ UNCHANGED mainProviders

\* the handler's result for each reading of the dates and each set of
\* creations that fail
CreatingPlanned(sprint_plan) ==
  \E spans \in 0..MaxSprints, failing \in SUBSET (1..MaxFailing) :
    Handled("create_sprint",
            CreatePlannedSprints(JiraTool(ContextTools),
                                 ExtractSprintsFromPlan(sprint_plan, spans), failing))

RunCreateSprint ==
  /\ mainPc = "handling"
  /\ mainOperation = "create_sprint"
  /\ CreatingPlanned(ParseSprintRequirements(mainQuery))
  /\ UNCHANGED mainProviders

RunGeneral ==
  /\ Handled("general",
             IF GeneralRaises(mainDecision.decision) THEN NoCalls(ManagementError(<<"'", ">", "'", " ", "n", "o", "t", " ", "s", "u", "p", "p", "o", "r", "t", "e", "d", " ", "b", "e", "t", "w", "e", "e", "n", " ", "i", "n", "s", "t", "a", "n", "c", "e", "s">>))
             ELSE GeneralManagement(mainDecision.decision))
  /\ UNCHANGED mainProviders

\* the data of the response an agent's execute builds: a dict of what it
\* decided when the handler succeeded, None in the responses of a failure
AgentData(agent, response, made) ==
  IF ~response.success \/ made.raised THEN NoData
  ELSE IF agent = "analysis"
  THEN <<[analysis_type |-> made.decision.action_type,
          decision_reasoning |-> made.decision.reasoning,
          confidence |-> made.decision.confidence,
          insights_generated |-> JStr(<<"T", "r", "u", "e">>)]>>
  ELSE <<[operation_type |-> made.decision.action_type,
          decision_reasoning |-> made.decision.reasoning,
          confidence |-> made.decision.confidence,
          tools_used |-> made.decision.tools_to_use]>>

\* specialized_response.data['routing'] = {..}, on {} when data is None,
\* without the entries the agent gave
AddRouting_DropData(response, data, intent) ==
  [success |-> response.success, content |-> response.content, error |-> response.error,
   data |-> <<[routing |-> [target_agent |-> intent.target_agent,
                            reasoning |-> intent.reasoning,
                            routed_by |-> "main_agent"]]>>]

\* specialized_response.data['routing'] = {..}, on {} when data is None
AddRouting(response, data, intent) ==
  [success |-> response.success, content |-> response.content, error |-> response.error,
   data |-> <<SetItem(IF data = NoData THEN EmptyDict ELSE data[1], "routing",
                      [target_agent |-> intent.target_agent,
                       reasoning |-> intent.reasoning,
                       routed_by |-> "main_agent"])>>]

\* MainAgent.execute returns: the agent's response with the routing entry,
\* or its own response when it built no agent
MainRespond ==
  /\ mainPc = "respond"
  /\ mainPc' = "returned"
  /\ mainRouted' =
       IF mainHandlerRuns = 0
       THEN [success |-> mainResponse.success, content |-> mainResponse.content,
             error |-> mainResponse.error, data |-> NoData]
       ELSE AddRouting(mainResponse, AgentData(mainAgent, mainResponse, mainDecision),
                       mainIntent)
  /\ UNCHANGED <<mainQuery, mainProject, mainIntent, mainAgent, mainDecision, mainOperation,
                 mainCalls, mainResponse, mainProviders, mainModelCalls, mainHandlerRuns>>

\* the response has been returned
MainReturn ==
  /\ mainPc = "returned"
  /\ mainPc' = "idle"
  /\ mainRouted' = NoRouted
  /\ mainQuery' = <<>>
  /\ mainProject' = NoProject
  /\ mainIntent' = NoIntent
  /\ mainAgent' = "none"
  /\ mainDecision' = NoDecision
  /\ mainOperation' = "none"
  /\ mainCalls' = <<>>
  /\ mainResponse' = NoResponse
  /\ mainModelCalls' = 0
  /\ mainHandlerRuns' = 0
  /\ UNCHANGED mainProviders

MainNext ==
  \/ /\ mainPc = "idle"
     /\ \E query \in MainRequests, project \in Projects : MainReceive(query, project)
  \/ /\ mainPc = "routing"
     /\ \E reply \in RouterReplies : MainRoute(reply)
  \/ /\ mainPc = "deciding"
     /\ \E reply \in DecisionReplies : AgentDecide(reply)
  \/ RunAnalysis
  \/ /\ mainPc = "handling"
     /\ \E response \in UpdateResponses : RunUpdate(response)
  \/ /\ mainPc = "handling"
     /\ \E response \in UpdateResponses, fetched \in SprintFetches, post \in SprintPosts :
          RunAssign(response, fetched, post)
  \/ RunDelete
  \/ RunMove
  \/ /\ mainPc = "handling"
     /\ \E fetch \in ItemFetches : RunRemoveDuplicates(fetch)
  \/ /\ mainPc = "handling"
     /\ \E failing \in SUBSET (1..MaxFailing) : RunCreateWorkItems(failing)
  \/ RunCreateSprint
  \/ RunGeneral
  \/ MainRespond
  \/ MainReturn

(***************************************************************************)
(* Claims about a request, from its arrival to its response                *)
(***************************************************************************)
\* the errors that tell the user to word the request differently
UserInputErrors ==
  {<<"W", "o", "r", "k", " ", "i", "t", "e", "m", " ", "I", "D", " ", "i", "s", " ", "r", "e", "q", "u", "i", "r", "e", "d">>, <<"I", "n", "v", "a", "l", "i", "d", " ", "w", "o", "r", "k", " ", "i", "t", "e", "m", " ", "I", "D", " ", "f", "o", "r", "m", "a", "t">>, <<"N", "o", " ", "u", "p", "d", "a", "t", "e", "s", " ", "s", "p", "e", "c", "i", "f", "i", "e", "d">>,
   <<"A", "s", "s", "i", "g", "n", "e", "e", " ", "n", "a", "m", "e", " ", "i", "s", " ", "r", "e", "q", "u", "i", "r", "e", "d">>}

\* the places in calls of the calls that change data in a tool
Mutations(calls) == {i \in 1..Len(calls) : calls[i].op \in MutationOps}

\* C2: a management request (update, assign, assign to sprint, delete) whose
\* work item id is not an uppercase prefix, a hyphen and digits, and a request
\* that holds no update value or no assignee, is answered with a user-input
\* failure (missing id, invalid id format, no updates specified) and no
\* mutation call is issued
C2_BadRequestRejected ==
  (/\ mainPc = "respond"
   /\ \/ mainQuery \in BadIdRequests /\ mainOperation \in {"update", "assign", "delete"}
      \/ mainQuery = <<"u", "p", "d", "a", "t", "e", " ", "A", "G", "-", "1", "2">> /\ mainOperation = "update"
      \/ mainQuery = <<"a", "s", "s", "i", "g", "n", " ", "A", "G", "-", "1", "2">> /\ mainOperation = "assign")
  => /\ ~mainResponse.success
     /\ mainResponse.error \in UserInputErrors
     /\ Mutations(mainCalls) = {}

\* C5: a request routed to the analysis agent never issues a create, update
\* or delete call to a provider: every mutation call is issued by the
\* management agent, after the router selected management
C5_OnlyManagementMutates ==
  \A i \in Mutations(mainCalls) :
    mainCalls[i].agent = "management" /\ mainIntent.target_agent = "management"

\* the router's default choice, analysis with confidence low, under a decision
\* to create: the analysis agent has answered and every call it issued reads
C5_Witness ==
  /\ mainPc = "respond"
  /\ mainOperation = "analysis"
  /\ mainIntent.path = "fallback"
  /\ mainIntent.target_agent = "analysis"
  /\ mainIntent.confidence = JStr(<<"l", "o", "w">>)
  /\ mainDecision.decision.action_type = JStr(<<"c", "r", "e", "a", "t", "e">>)
  /\ mainCalls # <<>>
  /\ \A i \in 1..Len(mainCalls) : mainCalls[i].agent = "analysis"
  /\ Mutations(mainCalls) = {}

\* C6: in the keyword fallback the router selects management only when the
\* strong management keywords score and the strong analysis keywords do not,
\* or, when both or neither score, when more management verbs than analysis
\* verbs occur; in every tie, a message without any match among them, it
\* selects analysis with confidence low
C6_FallbackChoice ==
  mainIntent.path = "fallback" =>
    LET query_lower == Lower(mainQuery)
        strong_analysis == CountIn(strong_analysis_keywords, query_lower) > 0
        strong_management == CountIn(strong_management_keywords, query_lower) > 0
        analysis_verbs == CountIn(action_verbs_analysis, query_lower)
        management_verbs == CountIn(action_verbs_management, query_lower)
    IN /\ mainIntent.target_agent \in {"analysis", "management"}
       /\ mainIntent.target_agent = "management" <=>
            \/ strong_management /\ ~strong_analysis
            \/ (strong_management <=> strong_analysis) /\ management_verbs > analysis_verbs
       /\ ((strong_management <=> strong_analysis) /\ management_verbs = analysis_verbs)
            => /\ mainIntent.target_agent = "analysis"
               /\ mainIntent.confidence = JStr(<<"l", "o", "w">>)

\* a message without a keyword of either strong set and without a verb has
\* been routed by the fallback
C6_Witness ==
  /\ mainPc = "deciding"
  /\ mainQuery = <<"h", "e", "l", "l", "o", " ", "t", "h", "e", "r", "e">>
  /\ mainIntent.path = "fallback"
  /\ CountIn(strong_analysis_keywords, Lower(mainQuery)) = 0
  /\ CountIn(strong_management_keywords, Lower(mainQuery)) = 0
  /\ CountIn(action_verbs_analysis, Lower(mainQuery)) = 0
  /\ CountIn(action_verbs_management, Lower(mainQuery)) = 0
  /\ mainIntent.target_agent = "analysis"
  /\ mainIntent.confidence = JStr(<<"l", "o", "w">>)

\* C7: for "assign AG-12 to Dana Kim" against a project with one tracker
\* tool, the management agent's assignment issues exactly one provider update
\* call, for AG-12 and with the assignee Dana Kim as its only field, on both
\* decision paths
C7_AssignIssuesOneUpdate ==
  (/\ mainPc = "respond"
   /\ mainQuery = AssignDana
   /\ mainProject.tools = <<"jira">>
   /\ mainAgent = "management"
   /\ mainOperation = "assign")
  => /\ Cardinality(Mutations(mainCalls)) = 1
     /\ \A i \in Mutations(mainCalls) :
          /\ mainCalls[i].op = "update_work_item"
          /\ mainCalls[i].id = <<"A", "G", "-", "1", "2">>
          /\ mainCalls[i].updates = <<[k |-> "assignee", v |-> <<"D", "a", "n", "a", " ", "K", "i", "m">>]>>

(***************************************************************************)
(* Claims about the boundary of the decision engine                        *)
(***************************************************************************)
\* a reply the engine cannot use as given: the call failed, the content holds
\* no JSON object, or entities_needed is not a list of names
Unusable(reply) ==
  \/ reply.kind # "json"
  \/ /\ "entities_needed" \in DOMAIN reply.data
     /\ reply.data["entities_needed"].t # "list"

\* C11 as stated: analyze_query_and_decide never raises, and a failed model
\* call or an unusable reply (not parseable, or with a field of the wrong
\* type) is answered by the fallback decision
C11_NeverRaises ==
  decPc = "done"
    => /\ ~decResult.raised
       /\ Unusable(decReply) => decResult.path = "fallback"

\* the names of the tools a Decision may use: those of the project that are
\* in the registry
AvailableToolNames(tools) ==
  LET available_tools == DecisionAvailableTools(tools)
  IN {ToolText(available_tools[i]) : i \in 1..Len(available_tools)}

\* the reply names an entity that is not in the registry
NamesUnknownEntity(reply) ==
  /\ reply.kind = "json"
  /\ "entities_needed" \in DOMAIN reply.data
  /\ reply.data["entities_needed"].t = "list"
  /\ \E i \in 1..Len(reply.data["entities_needed"].v) :
       LET x == reply.data["entities_needed"].v[i]
       IN ~(x.t = "str" /\ \E e \in EntityTypes : EntityValue(e) = x.v)

\* C12 as stated: a Decision returned carries only tools of the project that
\* are in the registry, and a reply that names an unknown entity is not used
\* (the fallback decision is)
C12_UnknownNamesRejected ==
  (decPc = "done" /\ ~decResult.raised)
    => /\ LET u == decResult.decision.tools_to_use
          IN /\ u.t = "list"
             /\ \A i \in 1..Len(u.v) :
                  u.v[i].t = "str" /\ u.v[i].v \in AvailableToolNames(decTools)
       /\ NamesUnknownEntity(decReply) => decResult.path = "fallback"

\* C13 as stated: the fallback path gives confidence 0.6 and the model-backed
\* path a confidence of at least 0.7 (confidences are in tenths)
C13_ConfidenceTellsPath ==
  (decPc = "done" /\ ~decResult.raised)
    => LET c == decResult.decision.confidence
       IN /\ decResult.path = "fallback" => c = JNum(6)
          /\ decResult.path = "model" => (c.t = "num" /\ c.v >= 7)

(***************************************************************************)
(* Claims about the router                                                 *)
(***************************************************************************)
\* an exception reached the except clause of the agent's execute
HandlerRaised ==
  \/ mainOperation = "raise"
  \/ /\ mainOperation = "general"
     /\ ~mainDecision.raised
     /\ GeneralRaises(mainDecision.decision)

\* success = false, an apology as content and an error string
FailedOutcome(response) ==
  /\ ~response.success
  /\ Len(response.content) >= 22
  /\ SubSeq(response.content, 1, 22) = <<"I", " ", "e", "n", "c", "o", "u", "n", "t", "e", "r", "e", "d", " ", "a", "n", " ", "e", "r", "r", "o", "r">>
  /\ response.error # NoText

\* C14: a request has no response until it ends and then has one, the
\* handler's or a failure; an exception in the agent's execute gives
\* success = false with an apology and an error string; the routing model is
\* called at most once and at most one agent's execute is called, once
C14_OneTerminalOutcome ==
  /\ mainModelCalls <= 1
  /\ mainHandlerRuns <= 1
  /\ mainPc \in {"idle", "routing"}
       => mainResponse = NoResponse /\ mainModelCalls = 0 /\ mainHandlerRuns = 0
  /\ mainPc \in {"deciding", "handling"}
       => mainResponse = NoResponse /\ mainModelCalls = 1 /\ mainHandlerRuns = 1
  /\ mainPc = "respond"
       => /\ mainResponse # NoResponse
          /\ mainModelCalls = 1
          /\ mainHandlerRuns = 0 => ~mainResponse.success /\ mainResponse.error # NoText
          /\ HandlerRaised => FailedOutcome(mainResponse)

\* C14 happens: the decision engine raised inside the management agent's
\* execute, and the request ended with the failure response after one call
\* of the routing model and one call of the agent
C14_Witness ==
  /\ mainPc = "respond"
  /\ mainAgent = "management"
  /\ mainOperation = "raise"
  /\ mainModelCalls = 1
  /\ mainHandlerRuns = 1
  /\ FailedOutcome(mainResponse)

\* the reply is a verdict the router can use: an object whose target_agent
\* is analysis or management
UsableVerdict(reply) ==
  /\ reply.kind = "json"
  /\ "target_agent" \in DOMAIN reply.data
  /\ reply.data["target_agent"] \in {JStr(<<"a", "n", "a", "l", "y", "s", "i", "s">>), JStr(<<"m", "a", "n", "a", "g", "e", "m", "e", "n", "t">>)}

\* C15: whatever the routing model does, the router takes its verdict exactly
\* when the reply is an object with target analysis or management, and the
\* keyword fallback decides otherwise; the target routed to is analysis or
\* management, and no request ends with 'Intent analysis failed' or
\* 'Unknown target agent'
C15_VerdictOrFallback ==
  /\ mainPc = "routing"
       => \A reply \in RouterReplies :
            /\ UsableVerdict(reply)
                 => /\ AnalyzeUserIntent(mainQuery, reply).path = "model"
                    /\ JStr(AgentText(AnalyzeUserIntent(mainQuery, reply).target_agent))
                         = reply.data["target_agent"]
            /\ ~UsableVerdict(reply)
                 => AnalyzeUserIntent(mainQuery, reply) = FallbackIntentAnalysis(mainQuery)
  /\ mainPc \in {"deciding", "handling", "respond"}
       => /\ mainIntent.success
          /\ mainIntent.target_agent \in {"analysis", "management"}
          /\ mainAgent = mainIntent.target_agent
          /\ mainHandlerRuns = 1
          /\ mainResponse.error # IntentAnalysisFailed.error
          /\ mainResponse.error # UnknownTargetAgent(mainIntent.target_agent).error

\* C15 happens: a management request whose routing model gave no usable
\* verdict has been routed to the management agent by the keyword fallback
C15_Witness ==
  /\ mainPc = "deciding"
  /\ mainQuery = AssignDana
  /\ mainIntent.path = "fallback"
  /\ mainIntent.target_agent = "management"
  /\ mainAgent = "management"

(***************************************************************************)
(* The unified query of a Decision, agents/intelligence.py                 *)
(***************************************************************************)
\* the list _determine_related_entities extends, before duplicates and the
\* main entities are taken out
RelatedList(main_entities) ==
  (IF "work_item" \in Range(main_entities) THEN <<"user", "sprint">> ELSE <<>>)
  \o (IF "sprint" \in Range(main_entities) THEN <<"work_item">> ELSE <<>>)
  \o (IF "pull_request" \in Range(main_entities)
      THEN <<"user", "commit", "repository">> ELSE <<>>)
  \o (IF "repository" \in Range(main_entities) THEN <<"pull_request", "commit">> ELSE <<>>)

\* the related list without the subtraction of the main entities
DetermineRelatedEntities_KeepMain(main_entities) == Range(RelatedList(main_entities))

\* _determine_related_entities: set(related) - set(main_entities); the list
\* made of the set has its members in an order the code does not fix
DetermineRelatedEntities(main_entities) ==
  Range(RelatedList(main_entities)) \ Range(main_entities)

\* the lists list(s) can be for a set s
ListsOf(s) == {l \in [1..Cardinality(s) -> s] : Range(l) = s}

\* create_unified_query, with the list made of the related set
CreateUnifiedQuery(decision, include_related) ==
  [entities |-> decision.entities_needed,
   filters |-> decision.filters,
   include_related |-> include_related,
   limit |-> GetOr(decision.additional_context.v, "limit", JNull),
   sort_by |-> GetOr(decision.additional_context.v, "sort_by", JNull),
   sort_order |-> GetOr(decision.additional_context.v, "sort_order", JStr(<<"a", "s", "c">>))]

\* the longest entities_needed of a Decision
MaxEntities == 2

\* the additional_context of the Decisions: empty, the one of
\* test_unified_query_creation (and of the fallback decision), a limit
\* alone, a sort_by with a sort_order of null
QueryContexts ==
  {JDict(EmptyDict),
   JDict([limit |-> JNum(50), sort_by |-> JStr(<<"u", "p", "d", "a", "t", "e", "d", "_", "d", "a", "t", "e">>), sort_order |-> JStr(<<"d", "e", "s", "c">>)]),
   JDict([limit |-> JNum(0)]),
   JDict([sort_by |-> JStr(<<"p", "r", "i", "o", "r", "i", "t", "y">>), sort_order |-> JNull])}

UnifiedQueryFilters == {JDict(EmptyDict), JDict([status |-> JStr(<<"i", "n", "_", "p", "r", "o", "g", "r", "e", "s", "s">>)])}

\* Decisions as AgentDecision declares them
QueryDecisions ==
  {[action_type |-> JStr(<<"a", "n", "a", "l", "y", "z", "e">>),
    entities_needed |-> e,
    tools_to_use |-> JList(<<JStr(<<"j", "i", "r", "a">>)>>),
    filters |-> f,
    reasoning |-> JStr(<<"L", "L", "M", "-", "b", "a", "s", "e", "d", " ", "d", "e", "c", "i", "s", "i", "o", "n">>),
    confidence |-> JNum(7),
    additional_context |-> x] :
     e \in SeqsUpTo(EntityTypes, MaxEntities), f \in UnifiedQueryFilters, x \in QueryContexts}

VARIABLES
  qryPc,        \* "idle", "built"
  qryDecision,  \* the Decision given to create_unified_query
  qryQuery      \* the UnifiedQuery it returned

qryVars == <<qryPc, qryDecision, qryQuery>>

NoQuery ==
  [entities |-> <<>>, filters |-> JDict(EmptyDict), include_related |-> <<>>,
   limit |-> JNull, sort_by |-> JNull, sort_order |-> JNull]

\* the Decision held while no call is under way
IdleDecision ==
  [action_type |-> JStr(<<"a", "n", "a", "l", "y", "z", "e">>),
   entities_needed |-> <<>>,
   tools_to_use |-> JList(<<JStr(<<"j", "i", "r", "a">>)>>),
   filters |-> JDict(EmptyDict),
   reasoning |-> JStr(<<"L", "L", "M", "-", "b", "a", "s", "e", "d", " ", "d", "e", "c", "i", "s", "i", "o", "n">>),
   confidence |-> JNum(7),
   additional_context |-> JDict(EmptyDict)]

QryInit ==
  /\ qryPc = "idle"
  /\ qryDecision = IdleDecision
  /\ qryQuery = NoQuery

\* create_unified_query(decision)
QueryCreate(decision, include_related) ==
  /\ qryPc = "idle"
  /\ qryPc' = "built"
  /\ qryDecision' = decision
  /\ qryQuery' = CreateUnifiedQuery(decision, include_related)

\* the caller has taken the query
QueryReturn ==
  /\ qryPc = "built"
  /\ qryPc' = "idle"
  /\ qryQuery' = NoQuery
  /\ qryDecision' = IdleDecision

QryNext ==
  \/ /\ qryPc = "idle"
     /\ \E decision \in QueryDecisions :
          \E include_related \in ListsOf(DetermineRelatedEntities(decision.entities_needed)) :
            QueryCreate(decision, include_related)
  \/ QueryReturn

(***************************************************************************)
(* Claims about the unified query                                          *)
(***************************************************************************)
\* the relationship table
RelationshipTable(entity) ==
  CASE entity = "work_item" -> {"user", "sprint"}
    [] entity = "sprint" -> {"work_item"}
    [] entity = "pull_request" -> {"user", "commit", "repository"}
    [] entity = "repository" -> {"pull_request", "commit"}
    [] OTHER -> {}

\* C16: the query built from a Decision has the Decision's entities and
\* filters, the limit, sort_by and sort_order of its additional_context
\* (None for a missing limit or sort_by, asc for a missing sort_order), and
\* as include_related the members of the relationship table's sets for the
\* requested entities that are not requested themselves, each once
C16_QueryFromDecision ==
  qryPc = "built"
    => /\ qryQuery.entities = qryDecision.entities_needed
       /\ qryQuery.filters = qryDecision.filters
       /\ LET x == qryDecision.additional_context.v
          IN /\ qryQuery.limit = (IF "limit" \in DOMAIN x THEN x["limit"] ELSE JNull)
             /\ qryQuery.sort_by = (IF "sort_by" \in DOMAIN x THEN x["sort_by"] ELSE JNull)
             /\ qryQuery.sort_order
                  = (IF "sort_order" \in DOMAIN x THEN x["sort_order"] ELSE JStr(<<"a", "s", "c">>))
       /\ Range(qryQuery.include_related)
            = UNION {RelationshipTable(e) : e \in Range(qryQuery.entities)}
                \ Range(qryQuery.entities)
       /\ Cardinality(Range(qryQuery.include_related)) = Len(qryQuery.include_related)
       /\ Range(qryQuery.include_related) \cap Range(qryQuery.entities) = {}

\* C16 happens: the Decision of test_unified_query_creation, work items and
\* sprints with limit 50 by updated_date desc, gives a query that relates
\* users only
C16_Witness ==
  /\ qryPc = "built"
  /\ qryDecision.entities_needed = <<"work_item", "sprint">>
  /\ qryDecision.filters = JDict([status |-> JStr(<<"i", "n", "_", "p", "r", "o", "g", "r", "e", "s", "s">>)])
  /\ qryQuery.limit = JNum(50)
  /\ qryQuery.sort_order = JStr(<<"d", "e", "s", "c">>)
  /\ qryQuery.include_related = <<"user">>

(***************************************************************************)
(* Two analysis requests at once.  run_agent_pipeline_async hands each     *)
(* request to a thread of a pool of four (api/messages.py); the aggregation *)
(* engine is one object of the module (mcp/unified_service.py), and its    *)
(* registry of adapters is written by every analysis request.              *)
(***************************************************************************)
Requests == {1, 2}

\* request r is for project r; the tools each project may have
ConcurrentProjects(r) ==
  {[id |-> r, tools |-> t] : t \in {<<"jira">>, <<"github", "jira">>, <<"jira", "azure_devops">>}}

VARIABLES
  conPc,         \* per request: "idle", "received", "registered", "done"
  conProject,    \* per request: its project
  conProviders,  \* the registry: per tool type, the project whose tool
                 \* configuration built the adapter registered, 0 for none
  conUsed        \* per request: the adapters its query fetched through

conVars == <<conPc, conProject, conProviders, conUsed>>

ConInit ==
  /\ conPc = [r \in Requests |-> "idle"]
  /\ conProject = [r \in Requests |-> [id |-> r, tools |-> <<>>]]
  /\ conProviders = [t \in ToolNames |-> 0]
  /\ conUsed = [r \in Requests |-> {}]

\* register_provider for each tool of the project whose adapter can be
\* built: self.providers[tool_type] = provider
RegisterProvidersOf(project, providers) ==
  [t \in ToolNames |->
     IF t \in RegisterActualProviders(project.tools, {}) THEN project.id ELSE providers[t]]

\* get_available_tools and _fetch_from_tool: the tools of the project context
\* that have an adapter in the registry, each with the adapter fetched
\* through
AdaptersFetched(project, providers) ==
  LET tools == ProjectContextTools(project.tools)
  IN {[tool |-> tools[i].type, owner |-> providers[tools[i].type]] :
        i \in {j \in 1..Len(tools) : providers[tools[j].type] # 0}}

\* a thread of the pool takes the request
ConReceive(r, project) ==
  /\ conPc[r] = "idle"
  /\ conPc' = [conPc EXCEPT ![r] = "received"]
  /\ conProject' = [conProject EXCEPT ![r] = project]
  /\ UNCHANGED <<conProviders, conUsed>>

\* AnalysisAgent.execute: _register_actual_providers(project_context)
ConRegister(r) ==
  /\ conPc[r] = "received"
  /\ conPc' = [conPc EXCEPT ![r] = "registered"]
  /\ conProviders' = RegisterProvidersOf(conProject[r], conProviders)
  /\ UNCHANGED <<conProject, conUsed>>

\* AnalysisAgent.execute: unified_service.execute_unified_query(..)
ConFetch(r) ==
  /\ conPc[r] = "registered"
  /\ conPc' = [conPc EXCEPT ![r] = "done"]
  /\ conUsed' = [conUsed EXCEPT ![r] = AdaptersFetched(conProject[r], conProviders)]
  /\ UNCHANGED <<conProject, conProviders>>

\* the response is returned
ConReturn(r) ==
  /\ conPc[r] = "done"
  /\ conPc' = [conPc EXCEPT ![r] = "idle"]
  /\ conProject' = [conProject EXCEPT ![r] = [id |-> r, tools |-> <<>>]]
  /\ conUsed' = [conUsed EXCEPT ![r] = {}]
  /\ UNCHANGED conProviders

ConNext ==
  \E r \in Requests :
    \/ \E project \in ConcurrentProjects(r) : ConReceive(r, project)
    \/ ConRegister(r)
    \/ ConFetch(r)
    \/ ConReturn(r)

(***************************************************************************)
(* Claims about requests at once                                           *)
(***************************************************************************)
\* C17 as stated: whatever the interleaving of two requests for different
\* projects, a request fetches only through adapters built from its own
\* project's tool configuration
C17_OwnAdaptersOnly ==
  \A r \in Requests : \A used \in conUsed[r] : used.owner = conProject[r].id

(***************************************************************************)
(* Claims about the management agent's choice of handler                   *)
(***************************************************************************)
\* C18 as stated: for a management request whose text holds a word of the
\* status vocabulary, the handler chosen is never the assignment, and it is
\* the update whether the Decision says update or assign
C18_StatusTokenMeansUpdate ==
  (/\ mainPc \in {"handling", "respond"}
   /\ mainAgent = "management"
   /\ mainOperation \notin {"none", "raise"}
   /\ AnyIn(update_keywords, Lower(mainQuery)))
  => /\ mainOperation # "assign"
     /\ mainDecision.decision.action_type \in {JStr(<<"u", "p", "d", "a", "t", "e">>), JStr(<<"a", "s", "s", "i", "g", "n">>)}
          => mainOperation = "update"

(***************************************************************************)
(* Claims about the pairs the duplicate detector groups                    *)
(***************************************************************************)
\* the items of a group: the kept item and the flagged ones
GroupItems(group) == {group.kept_item} \cup Range(group.duplicates)

\* C19 as stated: any two items of the list fetched whose titles, in lower
\* case and stripped, have a similarity of at least 0.90 are in one group of
\* the detector's answer, in whatever order the list holds them
C19_SimilarPairsGrouped ==
  dupPc = "ran" =>
    \A a, b \in Range(dupItems) :
      (a # b /\ Similar(Strip(Lower(a.title)), Strip(Lower(b.title))))
        => \E g \in 1..Len(dupFirst.duplicates) :
             {a, b} \subseteq GroupItems(dupFirst.duplicates[g])

(***************************************************************************)
(* The tracker adapter's update, mcp/jira.py, and the removal of the       *)
(* flagged items through it, agents/management.py                          *)
(***************************************************************************)
\* the fields update_work_item sends, by the key of the update
field_mapping ==
  [title |-> "summary", description |-> "description", assignee |-> "assignee",
   priority |-> "priority", labels |-> "labels", story_points |-> "customfield_10016"]

\* update_data["fields"]: the updates whose key field_mapping has
RECURSIVE UpdateFields(_)
UpdateFields(updates) ==
  IF updates = <<>> THEN <<>>
  ELSE (IF Head(updates).k \in DOMAIN field_mapping
        THEN <<[k |-> field_mapping[Head(updates).k], v |-> Head(updates).v]>>
        ELSE <<>>)
       \o UpdateFields(Tail(updates))

\* updates['status'], as <<value>>, or <<>> without the key
StatusUpdate(updates) ==
  LET at == {i \in 1..Len(updates) : updates[i].k = "status"}
  IN IF at = {} THEN <<>> ELSE <<updates[CHOOSE i \in at : TRUE].v>>

\* what the tracker does with the requests for one issue: kind "down" (a
\* request raises), "refused" (the transitions are not listed: a status
\* other than 200) or "listed" (the names of the states its transitions
\* lead to); put is the status that answers a PUT
TrackerAnswers ==
  {[kind |-> "down", names |-> <<>>, put |-> 204],
   [kind |-> "refused", names |-> <<>>, put |-> 204],
   [kind |-> "listed", names |-> <<<<"I", "n", " ", "P", "r", "o", "g", "r", "e", "s", "s">>, <<"D", "o", "n", "e">>>>, put |-> 204],
   [kind |-> "listed", names |-> <<<<"I", "n", " ", "P", "r", "o", "g", "r", "e", "s", "s">>, <<"C", "l", "o", "s", "e", "d">>>>, put |-> 400]}

HttpRequest(method, work_item_id, path, body) ==
  [method |-> method, id |-> work_item_id, path |-> path, body |-> body]

McpSuccess == [success |-> TRUE, error |-> NoText]

McpFailure(error) == [success |-> FALSE, error |-> error]

\* the transition whose target state has the name of the status, in any
\* case: <<name>>, or <<>>
TargetTransition(names, status) ==
  LET at == {i \in 1..Len(names) : Lower(names[i]) = Lower(status)}
  IN IF at = {} THEN <<>> ELSE <<names[CHOOSE i \in at : \A j \in at : i <= j]>>

\* the requests of the status part of update_work_item
StatusRequests(work_item_id, status, answer) ==
  IF status = <<>> THEN <<>>
  ELSE <<HttpRequest("GET", work_item_id, "transitions", <<>>)>>
       \o (IF answer.kind = "listed" /\ TargetTransition(answer.names, status[1]) # <<>>
           THEN <<HttpRequest("POST", work_item_id, "transitions",
                              <<[k |-> "transition",
                                 v |-> TargetTransition(answer.names, status[1])[1]]>>)>>
           \* the body names the transition by its id: here, by the state it leads to
           ELSE <<>>)

\* update_work_item(project_id, work_item_id, updates): the requests sent and
\* the response returned
JiraUpdateWorkItem(work_item_id, updates, answer) ==
  IF answer.kind = "down" /\ (StatusUpdate(updates) # <<>> \/ UpdateFields(updates) # <<>>)
  THEN [requests |-> <<IF StatusUpdate(updates) # <<>>
                       THEN HttpRequest("GET", work_item_id, "transitions", <<>>)
                       ELSE HttpRequest("PUT", work_item_id, "issue", UpdateFields(updates))>>,
        response |-> McpFailure(<<"d", "o", "w", "n">>)]
  ELSE IF UpdateFields(updates) # <<>>
  THEN [requests |-> StatusRequests(work_item_id, StatusUpdate(updates), answer)
                       \o <<HttpRequest("PUT", work_item_id, "issue", UpdateFields(updates))>>,
        response |-> IF answer.put = 204 THEN McpSuccess
                     ELSE McpFailure(<<"F", "a", "i", "l", "e", "d", " ", "t", "o", " ", "u", "p", "d", "a", "t", "e", " ", "i", "s", "s", "u", "e", ":", " ">> \o NumText(answer.put))]
  ELSE [requests |-> StatusRequests(work_item_id, StatusUpdate(updates), answer),
        response |-> McpSuccess]

\* the flagged items of all groups with the kept item of their group
RECURSIVE FlaggedOfGroups(_)
FlaggedOfGroups(duplicates) ==
  IF duplicates = <<>> THEN <<>>
  ELSE [i \in 1..Len(Head(duplicates).duplicates) |->
          [item |-> Head(duplicates).duplicates[i], kept_item |-> Head(duplicates).kept_item]]
       \o FlaggedOfGroups(Tail(duplicates))

\* removed_items, the provider calls and the requests that reached the
\* tracker, from the answers done of update_work_item
DeletedBy(flagged, calls, done) ==
  [removed_items |->
     [i \in 1..Len(flagged) |->
        [id |-> flagged[i].item.id,
         success |-> done[i].response.success,
         action |-> IF done[i].response.success THEN "marked_as_duplicate" ELSE "failed",
         kept_item_id |-> flagged[i].kept_item.id]],
   calls |-> calls,
   requests |-> JoinWith([i \in 1..Len(flagged) |-> done[i].requests], <<>>)]

DeleteFlagged(flagged, calls, answers) ==
  DeletedBy(flagged, calls,
            [i \in 1..Len(flagged) |->
               JiraUpdateWorkItem(calls[i].id, calls[i].updates, answers[i])])

\* _delete_duplicate_items(duplicates, ..) against a tracker that gives
\* answers[i] to the i-th update
DeleteDuplicateItems(duplicates, answers) ==
  DeleteFlagged(FlaggedOfGroups(duplicates), MarkDuplicates(Flagged(duplicates)), answers)

VARIABLES
  remPc,       \* "idle", "found" (the duplicates are identified), "removed"
  remItems,    \* the work items fetched from the tracker
  remFound,    \* the groups _identify_duplicates gave
  remDeleted,  \* removed_items, the provider calls and the tracker requests
  remResult    \* the handler's result

remVars == <<remPc, remItems, remFound, remDeleted, remResult>>

NothingDeleted == [removed_items |-> <<>>, calls |-> <<>>, requests |-> <<>>]

RemInit ==
  /\ remPc = "idle"
  /\ remItems = <<>>
  /\ remFound = <<>>
  /\ remDeleted = NothingDeleted
  /\ remResult = NoResponse

\* _remove_duplicate_items up to the groups found, for the lists that have
\* duplicates
RemIdentify(work_items, found) ==
  /\ ~found.raised
  /\ found.duplicates # <<>>
  /\ remPc' = "found"
  /\ remItems' = work_items
  /\ remFound' = found.duplicates
  /\ UNCHANGED <<remDeleted, remResult>>

\* the result of _remove_duplicate_items for what was deleted
RemDeleted(deleted) ==
  /\ remDeleted' = deleted
  /\ remResult' = RemoveFlagged(Flagged(remFound),
                                {i \in 1..Len(deleted.removed_items) :
                                   ~deleted.removed_items[i].success}).result

\* _remove_duplicate_items from _delete_duplicate_items to its result
RemDelete(answers) ==
  /\ remPc = "found"
  /\ remPc' = "removed"
  /\ RemDeleted(DeleteDuplicateItems(remFound, answers))
  /\ UNCHANGED <<remItems, remFound>>

RemReturn ==
  /\ remPc = "removed"
  /\ remPc' = "idle"
  /\ remItems' = <<>>
  /\ remFound' = <<>>
  /\ remDeleted' = NothingDeleted
  /\ remResult' = NoResponse

RemNext ==
  \/ /\ remPc = "idle"
     /\ \E items \in FetchedLists : RemIdentify(items, IdentifyDuplicates(items, {}))
  \/ /\ remPc = "found"
     /\ \E answers \in [1..Len(Flagged(remFound)) -> TrackerAnswers] : RemDelete(answers)
  \/ RemReturn

(***************************************************************************)
(* Claims about the removal of duplicates                                  *)
(***************************************************************************)
\* the requests that reached the tracker for an issue and that carry value
Carrying(requests, work_item_id, value) ==
  {i \in 1..Len(requests) :
     /\ requests[i].id = work_item_id
     /\ \E b \in 1..Len(requests[i].body) : requests[i].body[b].v = value}

\* C20 as stated: the removal issues no delete; each flagged item gets one
\* provider update with status Done and resolution Duplicate, and both values
\* reach the tracker; an item is reported removed only if the tracker applied
\* the change; the kept item of a group is never updated
C20_RemovalMarksDone ==
  remPc = "removed" =>
    LET flagged == FlaggedOfGroups(remFound)
        calls == remDeleted.calls
        requests == remDeleted.requests
    IN /\ \A c \in 1..Len(calls) : calls[c].op = "update_work_item"
       /\ \A r \in 1..Len(requests) : requests[r].method # "DELETE"
       /\ \A i \in 1..Len(flagged) :
            /\ Cardinality({c \in 1..Len(calls) : calls[c].id = flagged[i].item.id}) = 1
            /\ \A c \in 1..Len(calls) :
                 calls[c].id = flagged[i].item.id
                   => calls[c].updates = <<[k |-> "status", v |-> <<"D", "o", "n", "e">>],
                                           [k |-> "resolution", v |-> <<"D", "u", "p", "l", "i", "c", "a", "t", "e">>]>>
            /\ remDeleted.removed_items[i].success
                 => /\ Carrying(requests, flagged[i].item.id, <<"D", "o", "n", "e">>) # {}
                    /\ Carrying(requests, flagged[i].item.id, <<"D", "u", "p", "l", "i", "c", "a", "t", "e">>) # {}
       /\ \A g \in 1..Len(remFound) :
            /\ \A c \in 1..Len(calls) : calls[c].id # remFound[g].kept_item.id
            /\ \A r \in 1..Len(requests) : requests[r].id # remFound[g].kept_item.id

(***************************************************************************)
(* Claims about the mutation handlers and the provider's answer            *)
(***************************************************************************)
\* the requests of the main flow that name a work item by a well-formed id
\* and say what to change
WellFormedMutations ==
  {AssignDana, <<"u", "p", "d", "a", "t", "e", " ", "s", "t", "a", "t", "u", "s", " ", "o", "f", " ", "w", "o", "r", "k", "i", "t", "e", "m", " ", "A", "G", "-", "1", " ", "t", "o", " ", "d", "o", "n", "e">>, <<"d", "e", "l", "e", "t", "e", " ", "A", "G", "-", "1", "2">>}

\* the provider method a mutation handler is to call
MutationKind(operation) ==
  IF operation = "delete" THEN "delete_work_item" ELSE "update_work_item"

\* the calls of a request that change or delete a work item
ItemMutations(calls) ==
  {i \in 1..Len(calls) : calls[i].op \in {"update_work_item", "delete_work_item"}}

\* C21 as stated: a mutation handler (update, assign, delete) given a
\* well-formed id and a project with a tracker issues exactly one provider
\* call of its kind, and a response that is not a success carries the
\* message of a provider failure (not found, no permission, or other)
C21_OneMutationPerRequest ==
  (/\ mainPc = "respond"
   /\ mainOperation \in {"update", "assign", "delete"}
   /\ mainQuery \in WellFormedMutations
   /\ JiraTool(ProjectContextTools(mainProject.tools)) # <<>>)
  => /\ Cardinality(ItemMutations(mainCalls)) = 1
     /\ \A i \in ItemMutations(mainCalls) : mainCalls[i].op = MutationKind(mainOperation)
     /\ ~mainResponse.success
          => /\ Len(mainResponse.content) >= Len(CrossMark)
             /\ Take(mainResponse.content, Len(CrossMark)) = CrossMark

(***************************************************************************)
(* Claims about the response the router returns                            *)
(***************************************************************************)
\* C24: the response the router returns after an agent ran has the content,
\* the success flag and the error of the agent's response, and its data is
\* the agent's data with one more entry, 'routing', that holds the target
\* and the reasoning of the intent analysis
C24_RouterOnlyAddsRouting ==
  (mainPc = "returned" /\ mainHandlerRuns = 1)
    => /\ mainRouted.success = mainResponse.success
       /\ mainRouted.content = mainResponse.content
       /\ mainRouted.error = mainResponse.error
       /\ Len(mainRouted.data) = 1
       /\ DOMAIN mainRouted.data[1] =
            {"routing"} \cup
            (IF AgentData(mainAgent, mainResponse, mainDecision) = NoData THEN {}
             ELSE DOMAIN AgentData(mainAgent, mainResponse, mainDecision)[1])
       /\ \A k \in DOMAIN mainRouted.data[1] \ {"routing"} :
            mainRouted.data[1][k] = AgentData(mainAgent, mainResponse, mainDecision)[1][k]
       /\ mainRouted.data[1]["routing"].target_agent = mainIntent.target_agent
       /\ mainRouted.data[1]["routing"].reasoning = mainIntent.reasoning

\* an analysis that succeeded is returned with its data and the routing entry
C24_Witness ==
  /\ mainPc = "returned"
  /\ mainHandlerRuns = 1
  /\ mainAgent = "analysis"
  /\ mainResponse.success
  /\ mainRouted.content = mainResponse.content
  /\ DOMAIN mainRouted.data[1] =
       {"analysis_type", "decision_reasoning", "confidence", "insights_generated", "routing"}
  /\ mainRouted.data[1]["routing"].reasoning = JStr(<<"N", "o", " ", "r", "e", "a", "s", "o", "n", "i", "n", "g", " ", "p", "r", "o", "v", "i", "d", "e", "d">>)

\* the ids of the items of a group: the kept item and the flagged ones
GroupIds(group) ==
  {group.kept_item.id} \cup {group.duplicates[i].id : i \in 1..Len(group.duplicates)}

C28_SuccessMeansApplied ==
  remPc = "removed" =>
    \A i \in 1..Len(remDeleted.removed_items) :
      remDeleted.removed_items[i].success
        => \E r \in 1..Len(remDeleted.requests) :
             /\ remDeleted.requests[r].method = "POST"
             /\ remDeleted.requests[r].path = "transitions"
             /\ remDeleted.requests[r].id = remDeleted.removed_items[i].id
             /\ \E b \in 1..Len(remDeleted.requests[r].body) :
                  Lower(remDeleted.requests[r].body[b].v) = Lower(<<"D", "o", "n", "e">>)

(***************************************************************************)
(* The agent registry, agents/base.py, the application's start-up,         *)
(* app/__init__.py, and the message pipeline, api/messages.py              *)
(***************************************************************************)
\* the chat sessions the store holds at most
MaxSessions == 3

\* AgentRegistry.get_agent(name): <<name>>, or <<>> for None
GetAgent(agents, name) == IF name \in agents THEN <<name>> ELSE <<>>

\* AgentRegistry.get_agent_for_query(query, context)
GetAgentForQuery(agents, query) ==
  LET query_lower == Lower(query)
  IN IF AnyIn(<<<<"a", "n", "a", "l", "y", "z", "e">>, <<"a", "n", "a", "l", "y", "s", "i", "s">>, <<"h", "e", "a", "l", "t", "h">>, <<"m", "e", "t", "r", "i", "c", "s">>, <<"p", "r", "o", "g", "r", "e", "s", "s">>>>, query_lower)
     THEN GetAgent(agents, "project_analysis")
     ELSE IF AnyIn(<<<<"s", "p", "r", "i", "n", "t">>, <<"i", "t", "e", "r", "a", "t", "i", "o", "n">>, <<"p", "l", "a", "n">>, <<"p", "l", "a", "n", "n", "i", "n", "g">>>>, query_lower)
     THEN GetAgent(agents, "sprint_planning")
     ELSE IF AnyIn(<<<<"t", "a", "s", "k">>, <<"w", "o", "r", "k", " ", "i", "t", "e", "m">>, <<"i", "s", "s", "u", "e">>, <<"t", "i", "c", "k", "e", "t">>, <<"c", "r", "e", "a", "t", "e">>, <<"u", "p", "d", "a", "t", "e">>>>, query_lower)
     THEN GetAgent(agents, "task_management")
     ELSE IF AnyIn(<<<<"p", "e", "r", "f", "o", "r", "m", "a", "n", "c", "e">>, <<"v", "e", "l", "o", "c", "i", "t", "y">>, <<"p", "r", "o", "d", "u", "c", "t", "i", "v", "i", "t", "y">>, <<"t", "e", "a", "m">>>>, query_lower)
     THEN GetAgent(agents, "performance_analysis")
     ELSE IF AnyIn(<<<<"r", "i", "s", "k">>, <<"r", "i", "s", "k", "s">>, <<"i", "s", "s", "u", "e", "s">>, <<"b", "l", "o", "c", "k", "e", "r", "s">>, <<"i", "m", "p", "e", "d", "i", "m", "e", "n", "t", "s">>>>, query_lower)
     THEN GetAgent(agents, "risk_assessment")
     ELSE IF AnyIn(<<<<"r", "e", "p", "o", "r", "t">>, <<"s", "t", "a", "t", "u", "s">>, <<"s", "u", "m", "m", "a", "r", "y">>, <<"d", "a", "s", "h", "b", "o", "a", "r", "d">>>>, query_lower)
     THEN GetAgent(agents, "report_generation")
     ELSE GetAgent(agents, "project_analysis")

\* the messages submitted to the pipeline
PipelineMessages ==
  {AssignDana, ShowBacklog, <<"h", "e", "l", "l", "o", " ", "t", "h", "e", "r", "e">>, <<"d", "e", "l", "e", "t", "e", " ", "A", "G", "-", "1", "2">>,
   <<"u", "p", "d", "a", "t", "e", " ", "s", "t", "a", "t", "u", "s", " ", "o", "f", " ", "w", "o", "r", "k", "i", "t", "e", "m", " ", "A", "G", "-", "1", " ", "t", "o", " ", "d", "o", "n", "e">>, <<"f", "i", "n", "d", " ", "m", "y", " ", "t", "a", "s", "k", "s">>,
   <<"A", "n", "a", "l", "y", "z", "e", " ", "p", "r", "o", "j", "e", "c", "t", " ", "h", "e", "a", "l", "t", "h">>, <<"p", "l", "a", "n", " ", "n", "e", "x", "t", " ", "s", "p", "r", "i", "n", "t">>, <<"c", "r", "e", "a", "t", "e", " ", "a", " ", "t", "i", "c", "k", "e", "t">>,
   <<"t", "e", "a", "m", " ", "v", "e", "l", "o", "c", "i", "t", "y">>, <<"l", "i", "s", "t", " ", "b", "l", "o", "c", "k", "e", "r", "s">>, <<"s", "t", "a", "t", "u", "s", " ", "r", "e", "p", "o", "r", "t">>}

\* the session ids a request can carry: none, or the id of a session
SessionIds == {<<>>} \cup {<<k>> : k \in 1..MaxSessions}

NoAgentFound == <<"N", "o", " ", "s", "u", "i", "t", "a", "b", "l", "e", " ", "a", "g", "e", "n", "t", " ", "f", "o", "u", "n", "d", " ", "f", "o", "r", " ", "t", "h", "i", "s", " ", "q", "u", "e", "r", "y">>

UserNotFound == <<"U", "s", "e", "r", " ", "n", "o", "t", " ", "f", "o", "u", "n", "d">>

VARIABLES
  pipPc,        \* "boot", "idle", "answered"
  pipAgents,    \* the names the registry holds
  pipSessions,  \* the number of chat sessions committed to the store
  pipMessage,   \* the message in hand
  pipResult     \* what run_agent_pipeline returned

pipVars == <<pipPc, pipAgents, pipSessions, pipMessage, pipResult>>

NoPipelineResult == [status_code |-> 0, error |-> NoText, agent_type |-> <<>>, session |-> 0]

PipInit ==
  /\ pipPc = "boot"
  /\ pipAgents = {}
  /\ pipSessions = 0
  /\ pipMessage = <<>>
  /\ pipResult = NoPipelineResult

\* _register_agents(): the router is the only agent registered
RegisterAgents ==
  /\ pipPc = "boot"
  /\ pipPc' = "idle"
  /\ pipAgents' = pipAgents \cup {"main"}
  /\ UNCHANGED <<pipSessions, pipMessage, pipResult>>

\* what run_agent_pipeline returns for a message of a known user in the
\* chat session numbered session, given the agent found for it
PipelineResult(agent, session) ==
  IF agent = <<>>
  THEN [status_code |-> 400, error |-> <<NoAgentFound>>, agent_type |-> <<>>, session |-> session]
  ELSE [status_code |-> 200, error |-> NoText, agent_type |-> agent, session |-> session]

\* run_agent_pipeline(message, user_id, project_id, session_id, interface)
RunAgentPipeline(message, user_known, session_id) ==
  /\ pipPc = "idle"
  /\ pipPc' = "answered"
  /\ pipMessage' = message
  /\ UNCHANGED pipAgents
  /\ IF ~user_known
     THEN /\ pipResult' = [status_code |-> 404, error |-> <<UserNotFound>>,
                           agent_type |-> <<>>, session |-> 0]
          /\ UNCHANGED pipSessions
     ELSE IF session_id # <<>> /\ session_id[1] <= pipSessions
     THEN /\ pipResult' = PipelineResult(GetAgentForQuery(pipAgents, message), session_id[1])
          /\ UNCHANGED pipSessions
     ELSE /\ pipSessions < MaxSessions
          /\ pipSessions' = pipSessions + 1
          /\ pipResult' = PipelineResult(GetAgentForQuery(pipAgents, message), pipSessions + 1)

PipelineReturn ==
  /\ pipPc = "answered"
  /\ pipPc' = "idle"
  /\ pipMessage' = <<>>
  /\ pipResult' = NoPipelineResult
  /\ UNCHANGED <<pipAgents, pipSessions>>

PipNext ==
  \/ RegisterAgents
  \/ /\ pipPc = "idle"
     /\ \E message \in PipelineMessages, user_known \in BOOLEAN, session_id \in SessionIds :
          RunAgentPipeline(message, user_known, session_id)
  \/ PipelineReturn

(***************************************************************************)
(* Claims about the message pipeline                                       *)
(***************************************************************************)
\* C29 as stated: once the application has registered its agents, every
\* message of a known user is dispatched: the pipeline never answers that no
\* suitable agent was found, and the router is the agent executed
C29_AlwaysDispatched ==
  pipPc = "answered" /\ pipResult.status_code # 404
    => /\ pipResult.status_code # 400   \* the answer that no agent was found
       /\ pipResult.agent_type = <<"main">>

(***************************************************************************)
(* The sprints of a plan, agents/management.py _extract_sprints_from_plan  *)
(***************************************************************************)
\* int(s) for a text of digits
RECURSIVE IntOf(_)
IntOf(s) ==
  IF s = <<>> THEN 0
  ELSE 10 * IntOf(SubSeq(s, 1, Len(s) - 1))
       + (CHOOSE n \in 0..9 : DigitText[n + 1] = s[Len(s)])

IsLeap(y) == (y % 4 = 0 /\ y % 100 # 0) \/ y % 400 = 0

DaysInMonth(y, m) ==
  IF m = 2 THEN (IF IsLeap(y) THEN 29 ELSE 28)
  ELSE IF m \in {4, 6, 9, 11} THEN 30 ELSE 31

\* the day number of a calendar date: the days from 1970-01-01 to it
DaysFromCivil(year, m, d) ==
  LET y == IF m <= 2 THEN year - 1 ELSE year
      era == y \div 400
      yoe == y - era * 400
      mp == (m + 9) % 12
      doy == (153 * mp + 2) \div 5 + d - 1
      doe == yoe * 365 + yoe \div 4 - yoe \div 100 + doy
  IN era * 146097 + doe - 719468

\* parser.parse(s) for a date written year-month-day: <<day number>>, the
\* time being midnight, or <<>> where the parser raises
ParseDate(s) ==
  IF /\ Len(s) = 10
     /\ s[5] = "-" /\ s[8] = "-"
     /\ IsDigit(SubSeq(s, 1, 4)) /\ IsDigit(SubSeq(s, 6, 7)) /\ IsDigit(SubSeq(s, 9, 10))
     /\ IntOf(SubSeq(s, 1, 4)) >= 1
     /\ IntOf(SubSeq(s, 6, 7)) \in 1..12
     /\ IntOf(SubSeq(s, 9, 10)) \in 1..DaysInMonth(IntOf(SubSeq(s, 1, 4)), IntOf(SubSeq(s, 6, 7)))
  THEN <<DaysFromCivil(IntOf(SubSeq(s, 1, 4)), IntOf(SubSeq(s, 6, 7)), IntOf(SubSeq(s, 9, 10)))>>
  ELSE <<>>

\* str(n) in at least w digits
RECURSIVE Padded(_, _)
Padded(n, w) == IF Len(NumText(n)) >= w THEN NumText(n) ELSE <<"0">> \o Padded(n, w - 1)

\* datetime.isoformat() of midnight of the day numbered days
IsoFormat(days) ==
  LET z == days + 719468
      era == z \div 146097
      doe == z - era * 146097
      yoe == (doe - doe \div 1460 + doe \div 36524 - doe \div 146096) \div 365
      doy == doe - (365 * yoe + yoe \div 4 - yoe \div 100)
      mp == (5 * doy + 2) \div 153
      d == doy - (153 * mp + 2) \div 5 + 1
      m == IF mp < 10 THEN mp + 3 ELSE mp - 9
      y == yoe + era * 400 + (IF m <= 2 THEN 1 ELSE 0)
  IN Padded(y, 4) \o <<"-">> \o Padded(m, 2) \o <<"-">> \o Padded(d, 2) \o <<"T", "0", "0", ":", "0", "0", ":", "0", "0">>

\* timedelta(weeks=2), in days
sprint_duration == 14

\* the safety limit of the loop
SprintLimit == 50

SprintEnd_Unclamped(current_date, end_date) == current_date + sprint_duration

\* min(current_date + sprint_duration, end_date)
SprintEnd(current_date, end_date) ==
  IF current_date + sprint_duration < end_date THEN current_date + sprint_duration
  ELSE end_date

\* one entry of sprints
SprintEntry(sprint_number, current_date, sprint_end) ==
  [name |-> <<"S", "p", "r", "i", "n", "t", " ">> \o NumText(sprint_number),
   start_date |-> IsoFormat(current_date),
   end_date |-> IsoFormat(sprint_end),
   goal |-> <<"S", "p", "r", "i", "n", "t", " ">> \o NumText(sprint_number) \o <<" ", "o", "b", "j", "e", "c", "t", "i", "v", "e", "s">>,
   duration_days |-> sprint_end - current_date]

\* the while loop of _extract_sprints_from_plan, from the state it is in
RECURSIVE SprintLoop(_, _, _, _)
SprintLoop(current_date, end_date, sprint_number, sprints) ==
  IF ~(current_date < end_date) THEN sprints
  ELSE IF sprint_number + 1 > SprintLimit
  THEN Append(sprints, SprintEntry(sprint_number, current_date, SprintEnd(current_date, end_date)))
  ELSE SprintLoop(SprintEnd(current_date, end_date), end_date, sprint_number + 1,
                  Append(sprints, SprintEntry(sprint_number, current_date,
                                              SprintEnd(current_date, end_date))))

\* a date of the plan that is None or the empty text
Falsy(date_str) == date_str = NoText \/ date_str = <<>>

\* _extract_sprints_from_plan(plan_text, sprint_plan), the loop in full: no
\* sprint without two dates or when the parser raises
ExtractSprints(sprint_plan) ==
  IF Falsy(sprint_plan.start_date) \/ Falsy(sprint_plan.end_date) THEN <<>>
  ELSE IF ParseDate(sprint_plan.start_date) = <<>> \/ ParseDate(sprint_plan.end_date) = <<>>
  THEN <<>>
  ELSE SprintLoop(ParseDate(sprint_plan.start_date)[1], ParseDate(sprint_plan.end_date)[1], 1, <<>>)

\* the dates a plan can carry: none, the empty text, texts the parser does
\* not read, and days up to two years apart
PlanDates ==
  {NoText, <<>>, <<"s", "o", "o", "n">>, <<"2", "0", "2", "5", "-", "0", "2", "-", "3", "0">>,
   <<"2", "0", "2", "4", "-", "0", "2", "-", "2", "9">>, <<"2", "0", "2", "5", "-", "0", "1", "-", "0", "1">>, <<"2", "0", "2", "5", "-", "0", "1", "-", "0", "2">>, <<"2", "0", "2", "5", "-", "0", "1", "-", "1", "5">>, <<"2", "0", "2", "5", "-", "0", "1", "-", "1", "6">>,
   <<"2", "0", "2", "5", "-", "0", "1", "-", "3", "0">>, <<"2", "0", "2", "5", "-", "0", "3", "-", "0", "1">>, <<"2", "0", "2", "6", "-", "1", "2", "-", "0", "1">>, <<"2", "0", "2", "6", "-", "1", "2", "-", "0", "2">>, <<"2", "0", "2", "6", "-", "1", "2", "-", "0", "3">>,
   <<"2", "0", "2", "7", "-", "0", "1", "-", "0", "1">>}

VARIABLES
  sprPc,       \* "idle", "planned"
  sprPlan,     \* the sprint_plan in hand
  sprSprints   \* the sprints extracted from it

sprVars == <<sprPc, sprPlan, sprSprints>>

NoPlan == [start_date |-> NoText, end_date |-> NoText]

SprInit ==
  /\ sprPc = "idle"
  /\ sprPlan = NoPlan
  /\ sprSprints = <<>>

\* _generate_sprint_plan_with_llm: plan['sprints'] of a sprint_plan
GenerateSprintPlan(sprint_plan) ==
  /\ sprPc = "idle"
  /\ sprPc' = "planned"
  /\ sprPlan' = sprint_plan
  /\ sprSprints' = ExtractSprints(sprint_plan)

SprReturn ==
  /\ sprPc = "planned"
  /\ sprPc' = "idle"
  /\ sprPlan' = NoPlan
  /\ sprSprints' = <<>>

SprNext ==
  \/ /\ sprPc = "idle"
     /\ \E start_date, end_date \in PlanDates :
          GenerateSprintPlan([start_date |-> start_date, end_date |-> end_date])
  \/ SprReturn

(***************************************************************************)
(* Claims about the sprints of a plan                                      *)
(***************************************************************************)
\* the day an isoformat text names
DayOf(text) == ParseDate(SubSeq(text, 1, 10))[1]

\* the plan in hand has two dates the parser reads
Dated(sprint_plan) ==
  /\ ~Falsy(sprint_plan.start_date) /\ ~Falsy(sprint_plan.end_date)
  /\ ParseDate(sprint_plan.start_date) # <<>> /\ ParseDate(sprint_plan.end_date) # <<>>

\* C30: the extraction ends for every pair of dates; when the start is before
\* the end it gives sprints named 1..k, k at most 50, the first starting at
\* the start date, each next one starting where the one before ended, each
\* of at most 14 days, the last ending at the end date unless the 50 are
\* reached; and it gives none when the start is not before the end or a date
\* is missing
C30_SprintsTileTheRange ==
  sprPc = "planned" =>
    LET s == sprSprints
    IN IF Dated(sprPlan) /\ ParseDate(sprPlan.start_date)[1] < ParseDate(sprPlan.end_date)[1]
       THEN /\ Len(s) \in 1..SprintLimit
            /\ DayOf(s[1].start_date) = ParseDate(sprPlan.start_date)[1]
            /\ \A i \in 1..Len(s) :
                 /\ s[i].name = <<"S", "p", "r", "i", "n", "t", " ">> \o NumText(i)
                 /\ DayOf(s[i].start_date) < DayOf(s[i].end_date)
                 /\ DayOf(s[i].end_date) - DayOf(s[i].start_date) <= 14
                 /\ s[i].duration_days = DayOf(s[i].end_date) - DayOf(s[i].start_date)
                 /\ i < Len(s) => s[i + 1].start_date = s[i].end_date
            /\ Len(s) < SprintLimit
                 => DayOf(s[Len(s)].end_date) = ParseDate(sprPlan.end_date)[1]
       ELSE s = <<>>

\* a plan of more than 700 days: fifty sprints, the last ending before the
\* end date
C30_Witness ==
  /\ sprPc = "planned"
  /\ Len(sprSprints) = SprintLimit
  /\ DayOf(sprSprints[SprintLimit].end_date) < ParseDate(sprPlan.end_date)[1]

(***************************************************************************)
(* Specifications: one per component, over the whole state                 *)
(***************************************************************************)
vars == <<aggVars, decVars, dupVars, mainVars, qryVars, conVars, remVars, pipVars, sprVars>>

Init ==
  AggInit /\ DecInit /\ DupInit /\ MainInit /\ QryInit /\ ConInit /\ RemInit /\ PipInit /\ SprInit

SpecAgg == Init /\ [][AggNext /\ UNCHANGED <<decVars, dupVars, mainVars, qryVars, conVars, remVars, pipVars, sprVars>>]_vars

SpecDecide == Init /\ [][DecNext /\ UNCHANGED <<aggVars, dupVars, mainVars, qryVars, conVars, remVars, pipVars, sprVars>>]_vars

SpecDup == Init /\ [][DupNext /\ UNCHANGED <<aggVars, decVars, mainVars, qryVars, conVars, remVars, pipVars, sprVars>>]_vars

SpecMain == Init /\ [][MainNext /\ UNCHANGED <<aggVars, decVars, dupVars, qryVars, conVars, remVars, pipVars, sprVars>>]_vars

SpecQuery == Init /\ [][QryNext /\ UNCHANGED <<aggVars, decVars, dupVars, mainVars, conVars, remVars, pipVars, sprVars>>]_vars

SpecConcurrent ==
  Init /\ [][ConNext /\ UNCHANGED <<aggVars, decVars, dupVars, mainVars, qryVars, remVars, pipVars, sprVars>>]_vars

SpecRemoval ==
  Init /\ [][RemNext /\ UNCHANGED <<aggVars, decVars, dupVars, mainVars, qryVars, conVars, pipVars, sprVars>>]_vars

SpecPipeline ==
  Init /\ [][PipNext /\ UNCHANGED <<aggVars, decVars, dupVars, mainVars, qryVars, conVars, remVars, sprVars>>]_vars

SpecSprints ==
  Init /\ [][SprNext /\ UNCHANGED <<aggVars, decVars, dupVars, mainVars, qryVars, conVars, remVars, pipVars>>]_vars

====
